---- MODULE Spec2Model ----
(***************************************************************************)
(* A model of the SDIS core: the signed audit ledger (auditlog.py and      *)
(* crypto_sign.py), the per-tenant FAISS vector store (vectorstore.py),    *)
(* PII detection and redaction (redaction.py) and the query handlers that  *)
(* use them (queries.py).                                                  *)
(*                                                                         *)
(* Python values are modelled as tagged tuples so that values of different *)
(* Python types can be compared:                                           *)
(*   <<"null">>            None                                            *)
(*   <<"str", s>>          a str                                           *)
(*   <<"int", n>>          an int                                          *)
(*   <<"obj", pairs>>      a dict, as its <<key, value>> pairs in          *)
(*                         insertion order                                 *)
(*   <<"hex", bytes>>      the hex digest of SHA-256 over bytes            *)
(*   <<"b64", key, bytes>> the base64 RSA-PSS signature of bytes by key    *)
(***************************************************************************)
EXTENDS Integers, Sequences, FiniteSets, TLC

VARIABLES
    log,        \* the audit log file: what was written to it, in order (<<>>: absent)
    clock,      \* datetime.utcnow() of the latest call, in clock ticks
    opRes,      \* what the most recent ledger operation returned
    returned,   \* the audit ids returned by successful writes so far
    written,    \* the lines that calls of write_audit_event have appended, in order
    tampered,   \* the positions of log lines changed outside the ledger
    wStage,     \* per concurrent writer: where its write_audit_event call is
    wCall,      \* per concurrent writer: the arguments of its call
    wEvent,     \* per concurrent writer: the event dict the call is building
    wOffset     \* per concurrent writer: the length of the file when it opened it

ledgerVars == <<log, clock, opRes, returned, written, tampered>>

writerVars == <<wStage, wCall, wEvent, wOffset>>

VARIABLES
    idxFile,    \* the tenant's index file: absent, corrupt, or the vectors it holds
    metaFile,   \* the tenant's metadata file: absent, corrupt, or position -> vector id
    tmpDir,     \* the temporary files that exist: <<process, call, suffix>>
    db,         \* the rows of the vector_metadata table
    vpc,        \* per process: where its add_vectors or search call is
    vloc,       \* per process: the local variables of its call
    vPre,       \* per process: the two files as they were when its call began
    vCalls,     \* per process: the add_vectors, create_index and delete_index
                \* calls it has begun
    vAdded,     \* the vectors of the add_vectors calls that have returned
    vReset,     \* a create_index or delete_index call was made by itself
    committed,  \* the <<vectors, map>> pairs that were there at the start or
                \* that an add_vectors call has returned after saving
    vBase       \* the two files as they were at the start

vsVars == <<idxFile, metaFile, tmpDir, db, vpc, vloc, vPre, vCalls, vAdded, vReset,
            committed, vBase>>

VARIABLES
    request,    \* the request a query handler is answering (NoRequest: none)
    response,   \* what the handler returned for it
    audited     \* the audit events write_audit_event took from the handler

queryVars == <<request, response, audited>>

VARIABLES
    fnCall,     \* the call of a function of the services being made (NoFn: none)
    fnResult    \* what that call returned

fnVars == <<fnCall, fnResult>>

vars == <<ledgerVars, writerVars, vsVars, queryVars, fnVars>>

-----------------------------------------------------------------------------
(* Bounds of the model *)

\* The number of writes, whole or cut short, the model lets write_audit_event
\* make to the log file.
MaxWrites == 2

\* The number of clock ticks the model lets pass.
MaxClock == 1

\* The number of add_vectors, create_index and delete_index calls the caller
\* of SpecSeq makes, one after another.
MaxSeqCalls == 2

\* The number of candidate spans the two detection tiers find in one text.
MaxFound == 3

\* The number of candidate spans found in the text of one chunk a query
\* returns.
MaxItemFound == 2

\* The length of the texts chunk_text is given, all of them up to it.
MaxText == 4

\* The chunk sizes chunk_text is configured with, from 0 up to it; the
\* overlaps go one further.
MaxChunkSize == 3

\* The number of lines of a log file read as it was found.
MaxLines == 3

-----------------------------------------------------------------------------
(* Python values *)

None == <<"null">>

PyStr(s) == <<"str", s>>

PyInt(n) == <<"int", n>>

Obj(pairs) == <<"obj", pairs>>

\* bool(v) for the values the ledger tests: None, '' and {} are false.
Truthy(v) == v # None /\ v # PyStr("") /\ v # Obj(<<>>)

\* The sequence f as a tuple of its elements, each worked out once.
Tuple(f) == SubSeq(f, 1, Len(f))

\* d[k] = v on a dict held as its pairs: an existing key keeps its place.
DictSet(d, k, v) ==
    IF \E i \in 1..Len(d) : d[i][1] = k
    THEN Tuple([i \in 1..Len(d) |-> IF d[i][1] = k THEN <<k, v>> ELSE d[i]])
    ELSE Append(d, <<k, v>>)

DictHas(d, k) == \E i \in 1..Len(d) : d[i][1] = k

\* d.get(k, default)
DictGet(d, k, default) ==
    IF DictHas(d, k)
    THEN LET i == CHOOSE j \in 1..Len(d) : d[j][1] = k IN d[i][2]
    ELSE default

\* d without key k ({k2: v for k2, v in d.items() if k2 != k}, or d.pop(k, _)).
DictDel(d, k) == SelectSeq(d, LAMBDA p : p[1] # k)

-----------------------------------------------------------------------------
(* json.dumps and json.loads *)

\* The strings the model uses as dict keys, in Python's str order.
StrOrder ==
    << "0", "1", "10", "2", "3", "4", "5", "6", "7", "8", "9",
       "action", "audit_id", "filters", "ip_address", "n", "q", "request_data",
       "resource", "resource_type", "response_data", "result_hash",
       "signature", "signature_algorithm", "signature_valid", "tenant_id",
       "timestamp", "user_agent", "user_id", "zz_added" >>

StrRankOf ==
    [s \in {StrOrder[i] : i \in 1..Len(StrOrder)} |->
        CHOOSE i \in 1..Len(StrOrder) : StrOrder[i] = s]

StrRank(s) == StrRankOf[s]

\* str(n) for the int keys the model uses.
DecimalText(n) ==
    << "0", "1", "2", "3", "4", "5", "6", "7", "8", "9", "10" >>[n + 1]

\* k1 < k2 as Python compares two dict keys of one type: ints by value,
\* strs by code point.
PyLess(k1, k2) ==
    IF k1[1] = "int" THEN k2[1] = "int" /\ k1[2] < k2[2]
    ELSE k2[1] = "str" /\ StrRank(k1[2]) < StrRank(k2[2])

\* sorted(d.items()): the keys of a dict are distinct, so each item's place is
\* one more than the number of items with a smaller key.
PlaceOf(pairs) ==
    Tuple([i \in 1..Len(pairs) |->
             1 + Cardinality({j \in 1..Len(pairs) : PyLess(pairs[j][1], pairs[i][1])})])

PutInPlace(pairs, place) ==
    Tuple([n \in 1..Len(pairs) |-> pairs[CHOOSE i \in 1..Len(pairs) : place[i] = n]])

SortedItems(pairs) == PutInPlace(pairs, PlaceOf(pairs))

\* A key as json.dumps writes it: an int key becomes its decimal string.
KeyText(k) == IF k[1] = "int" THEN PyStr(DecimalText(k[2])) ELSE k

\* json.dumps(v, sort_keys=sortKeys): the JSON text, held as the tree of what
\* it says. With sort_keys the items of every dict are sorted by their Python
\* keys BEFORE the keys are written as strings.
RECURSIVE JsonDumps(_, _)
DumpItems(items, sortKeys) ==
    Tuple([i \in 1..Len(items) |->
             <<KeyText(items[i][1]), JsonDumps(items[i][2], sortKeys)>>])

JsonDumps(v, sortKeys) ==
    IF v[1] = "obj"
    THEN Obj(DumpItems(IF sortKeys THEN SortedItems(v[2]) ELSE v[2], sortKeys))
    ELSE v

\* n in decimal, with zeros before it up to width digits.
RECURSIVE ZeroPadded(_, _)
ZeroPadded(n, width) ==
    IF width <= 1 THEN ToString(n)
    ELSE ZeroPadded(n \div 10, width - 1) \o ToString(n % 10)

\* isoformat() + 'Z' of the time ts, the clock counting microseconds from
\* the start of a fixed minute: seconds of two digits, then the microseconds
\* of six digits, which isoformat leaves out when they are 0.
IsoFormat(ts) ==
    "2024-01-01T00:00:" \o ZeroPadded((ts \div 1000000) % 60, 2)
        \o (IF ts % 1000000 = 0 THEN "" ELSE "." \o ZeroPadded(ts % 1000000, 6))
        \o "Z"

\* A str as json.dumps writes it between the quotes. The strs of the model
\* are ASCII and hold no character that json.dumps escapes, but for the two
\* one-character strs of a quote and of a backslash.
EscapedText(s) ==
    CASE s = "\"" -> "\\\""
      [] s = "\\" -> "\\\\"
      [] OTHER -> s

\* The text that stands for bytes, or for what was put in their place.
BytesText(b) ==
    CASE b[1] = "bytes" -> b[2]
      [] b[1] = "str" -> "~" \o b[2]
      [] b[1] = "changed" /\ b[2][1] = "bytes" -> "changed(" \o b[2][2] \o ")"
      [] OTHER -> ToString(b)

\* The characters of a value that is a str in Python: a str, a timestamp, a
\* hex digest or a base64 signature (the last two have one text per value:
\* the model does not compute the digits).
StrText(v) ==
    CASE v[1] = "str" -> EscapedText(v[2])
      [] v[1] = "ts" -> IsoFormat(v[2])
      [] v[1] = "hex" -> "sha256(" \o BytesText(v[2]) \o ")"
      [] v[1] = "b64" ->
           "b64(" \o v[2] \o ":" \o BytesText(v[3]) \o ")"
           \o (IF Len(v) > 3 THEN v[4] ELSE "")
      [] OTHER -> ToString(v)

\* The characters of the JSON text that the tree says, as json.dumps writes
\* them: ', ' between the items and ': ' after a key.
RECURSIVE TreeText(_)
RECURSIVE ItemsText(_, _)
ItemsText(items, i) ==
    IF i > Len(items) THEN ""
    ELSE (IF i > 1 THEN ", " ELSE "")
         \o TreeText(items[i][1]) \o ": " \o TreeText(items[i][2])
         \o ItemsText(items, i + 1)

TreeText(tree) ==
    CASE tree[1] = "obj" -> "{" \o ItemsText(tree[2], 1) \o "}"
      [] tree[1] = "int" -> ToString(tree[2])
      [] tree[1] = "null" -> "null"
      [] OTHER -> "\"" \o StrText(tree) \o "\""

\* (The tree is worked out once, then written.)
JsonText(tree) == LET text[t \in {tree}] == TreeText(t) IN text[tree]

\* dict(pairs) as json.loads builds it: a repeated key keeps its first place
\* and its last value.
DictOf(pairs) ==
    LET firsts == {i \in 1..Len(pairs) : \A j \in 1..(i - 1) : pairs[j][1] # pairs[i][1]}
        lastOf(i) == CHOOSE j \in 1..Len(pairs) :
                        /\ pairs[j][1] = pairs[i][1]
                        /\ \A m \in (j + 1)..Len(pairs) : pairs[m][1] # pairs[i][1]
    IN  IF Cardinality(firsts) = Len(pairs) THEN pairs
        ELSE SelectSeq([i \in 1..Len(pairs) |->
                           IF i \in firsts THEN <<pairs[i][1], pairs[lastOf(i)][2]>>
                           ELSE <<>>],
                       LAMBDA p : p # <<>>)

\* json.loads(text): every key of the result is a str.
RECURSIVE JsonLoads(_)
LoadItems(items) ==
    Tuple([i \in 1..Len(items) |-> <<items[i][1], JsonLoads(items[i][2])>>])

JsonLoads(text) ==
    IF text[1] = "obj" THEN Obj(DictOf(LoadItems(text[2]))) ELSE text

-----------------------------------------------------------------------------
(* crypto_sign.py *)

\* The RSA key pair of the service: the private key signs, the public key of
\* the same pair verifies.
SigningKey == "service-key"

VerifyingKey == "service-key"

\* The payload normalized to bytes: a dict is the UTF-8 bytes of the text of
\* json.dumps(sort_keys=True), a str its UTF-8 bytes, bytes as they are. The
\* bytes are held by the ASCII text they encode.
PayloadBytes(payload) ==
    IF payload[1] = "obj" THEN <<"bytes", JsonText(JsonDumps(payload, TRUE))>>
    ELSE IF payload[1] = "str" THEN <<"bytes", payload[2]>>
    ELSE payload

SignPayload(payload) == <<"b64", SigningKey, PayloadBytes(payload)>>

\* verify_signature of a service whose public key is publicKey: True iff
\* base64.b64decode(signature_b64) is a signature of exactly these bytes by
\* the private key of that pair. b64decode looks at the base64 characters
\* only (a text carries what it decodes to in places 2 and 3; what else the
\* text holds is in no other place looked at); every exception is False.
VerifyWith(publicKey, payload, signature) ==
    /\ signature[1] = "b64"
    /\ signature[2] = publicKey
    /\ signature[3] = PayloadBytes(payload)

VerifySignature(payload, signature) == VerifyWith(VerifyingKey, payload, signature)

HashPayload(payload) == <<"hex", PayloadBytes(payload)>>

-----------------------------------------------------------------------------
(* auditlog.py: AuditLogService *)

K(s) == PyStr(s)

\* The base event of write_audit_event, its keys in insertion order. ts is
\* datetime.utcnow() of the call; a call is [action, tenant_id, user_id,
\* resource, request_data, response_data], the other arguments left None.
BaseEvent(ts, call) ==
    << <<K("timestamp"), <<"ts", ts>>>>,
       <<K("action"), call.action>>,
       <<K("tenant_id"), call.tenant_id>>,
       <<K("user_id"), call.user_id>>,
       <<K("resource"), call.resource>>,
       <<K("resource_type"), None>>,
       <<K("ip_address"), None>>,
       <<K("user_agent"), None>>,
       <<K("request_data"),
         IF Truthy(call.request_data) THEN call.request_data ELSE Obj(<<>>)>>,
       <<K("response_data"),
         IF Truthy(call.response_data) THEN call.response_data ELSE Obj(<<>>)>> >>

\* audit_id = sha256(json.dumps(event, sort_keys=True)), then event['audit_id'].
AuditIdOf(event) == <<"hex", <<"bytes", JsonText(JsonDumps(Obj(event), TRUE))>>>>

WithAuditId(event) == DictSet(event, K("audit_id"), AuditIdOf(event))

\* event['result_hash'] only when response_data is truthy.
WithResultHash(event, call) ==
    IF Truthy(call.response_data)
    THEN DictSet(event, K("result_hash"), HashPayload(call.response_data))
    ELSE event

\* The event left as it is: no signature, no signature_algorithm.
WithSignatureSkipped(event) == event

\* The signature is made over the event as it stands (audit_id and
\* result_hash in it), then signature and signature_algorithm are set.
WithSignature(event) ==
    DictSet(DictSet(event, K("signature"), SignPayload(Obj(event))),
            K("signature_algorithm"), PyStr("RS256"))

\* One line of the log: json.dumps(event, ensure_ascii=False) + '\n'.
LineOf(event) == <<"json", JsonDumps(Obj(event), FALSE)>>

\* The file opened with mode 'w': what it held is gone.
AppendLineTruncating(file, offset, line) == <<line>>

\* open(log_path, 'a') then f.write(line): in append mode the line goes after
\* what the file holds when it is written, whatever the file held (offset
\* lines) when it was opened.
AppendLine(file, offset, line) == Append(file, line)

\* The event write_audit_event appends for a call at time ts.
SignedEvent(ts, call) ==
    WithSignature(WithResultHash(WithAuditId(BaseEvent(ts, call)), call))

\* What a write that failed partway has left at the end of the file: the
\* first bytes of the line ("cut": a proper part of its JSON text, which no
\* reader can load, whatever the event was), or the whole JSON text without
\* its line break ("unended").
FragmentOf(event, how) ==
    IF how = "cut" THEN <<"cut">> ELSE <<how, JsonDumps(Obj(event), FALSE)>>

IsFragment(piece) == piece[1] \in {"cut", "unended"}

\* The file holds no fragment: every write went through whole or left nothing.
WholeLines(file) == \A i \in 1..Len(file) : ~IsFragment(file[i])

\* The line that pieces written one after the other make, the last of them
\* a whole line or the end of the file: the JSON text of an unended line
\* alone (a blank line after it or nothing), no JSON otherwise.
LineOfPieces(pieces) ==
    IF /\ pieces[1][1] = "unended"
       /\ \/ Len(pieces) = 1
          \/ Len(pieces) = 2 /\ pieces[2][1] = "blank"
    THEN <<"json", pieces[1][2]>>
    ELSE <<"malformed", pieces>>

\* `for line in f`: the lines of the file, which holds what was written to
\* it in order. A fragment has no line break, so it is one line with what
\* was written after it, up to the next line break.
RECURSIVE LinesFrom(_, _, _)
LinesFrom(file, i, pending) ==
    IF i > Len(file)
    THEN IF pending = <<>> THEN <<>> ELSE <<LineOfPieces(pending)>>
    ELSE IF IsFragment(file[i]) THEN LinesFrom(file, i + 1, Append(pending, file[i]))
    ELSE IF pending = <<>> THEN <<file[i]>> \o LinesFrom(file, i + 1, <<>>)
    ELSE <<LineOfPieces(Append(pending, file[i]))>> \o LinesFrom(file, i + 1, <<>>)

FileLines(file) == LinesFrom(file, 1, <<>>)

\* A line is blank (line.strip() is empty), malformed (json.loads raises
\* JSONDecodeError) or JSON; only a JSON object has .get().
IsBlank(line) == line[1] = "blank"

IsJson(line) == line[1] = "json"

IsEventObject(line) == IsJson(line) /\ line[2][1] = "obj"

\* The event read_audit_event returns for a matching line: signature and
\* signature_algorithm popped, the rest verified, then both put back (at the
\* end) with signature_valid.
VerifiedParts(rest, signature, algorithm) ==
    [found |-> TRUE,
     event |-> DictSet(DictSet(rest, K("signature"), signature),
                       K("signature_algorithm"), algorithm),
     signature_valid |-> IF Truthy(signature) /\ algorithm = PyStr("RS256")
                         THEN VerifySignature(Obj(rest), signature)
                         ELSE FALSE]

VerifiedEvent(event) ==
    VerifiedParts(DictDel(DictDel(event, K("signature")), K("signature_algorithm")),
                  DictGet(event, K("signature"), PyStr("")),
                  DictGet(event, K("signature_algorithm"), PyStr("")))

NotFound == [found |-> FALSE, event |-> <<>>, signature_valid |-> FALSE]

\* read_audit_event(audit_id) on the lines from position i on: the line is
\* loaded, then the audit_id of the loaded event compared. A line that is
\* JSON but no object raises AttributeError at event.get, which the outer
\* handler turns into None.
RECURSIVE ReadFrom(_, _, _)
ReadFrom(file, i, audit_id) ==
    IF i > Len(file) THEN NotFound
    ELSE IF IsBlank(file[i]) \/ ~IsJson(file[i]) THEN ReadFrom(file, i + 1, audit_id)
    ELSE IF ~IsEventObject(file[i]) THEN NotFound
    ELSE IF DictGet(JsonLoads(file[i][2])[2], K("audit_id"), None) = audit_id
         THEN VerifiedEvent(JsonLoads(file[i][2])[2])
         ELSE ReadFrom(file, i + 1, audit_id)

ReadAuditEvent(file, audit_id) == ReadFrom(FileLines(file), 1, audit_id)

ZeroStats ==
    [raised |-> FALSE, total_events |-> 0, valid_signatures |-> 0,
     invalid_signatures |-> 0, malformed_events |-> 0, missing_signatures |-> 0]

\* How verify_audit_integrity counts one non-blank line.
EventClass(event, signature) ==
    IF ~Truthy(signature) THEN "missing"
    ELSE IF VerifySignature(
              Obj(DictDel(DictDel(event, K("signature")), K("signature_algorithm"))),
              signature)
         THEN "valid"
    ELSE "invalid"

LoadedClass(event) == EventClass(event, DictGet(event, K("signature"), None))

LineClass(line) ==
    IF ~IsJson(line) THEN "malformed" ELSE LoadedClass(JsonLoads(line[2])[2])

\* verify_audit_integrity(limit) from the line at index i (0-based, as
\* enumerate counts it); limit = 0 stands for None (`if limit and ...`).
\* event.get on JSON that is no object raises out of the call.
Counted(stats, class) ==
    [stats EXCEPT
       !.total_events = @ + 1,
       !.valid_signatures = @ + (IF class = "valid" THEN 1 ELSE 0),
       !.invalid_signatures = @ + (IF class = "invalid" THEN 1 ELSE 0),
       !.malformed_events = @ + (IF class = "malformed" THEN 1 ELSE 0),
       !.missing_signatures = @ + (IF class = "missing" THEN 1 ELSE 0)]

RECURSIVE VerifyFrom(_, _, _, _)
VerifyFrom(file, i, limit, stats) ==
    IF i >= Len(file) \/ (limit # 0 /\ i >= limit) THEN stats
    ELSE IF IsBlank(file[i + 1]) THEN VerifyFrom(file, i + 1, limit, stats)
    ELSE IF IsJson(file[i + 1]) /\ ~IsEventObject(file[i + 1])
         THEN [stats EXCEPT !.raised = TRUE, !.total_events = @ + 1]
    ELSE VerifyFrom(file, i + 1, limit, Counted(stats, LineClass(file[i + 1])))

VerifyAuditIntegrity(file, limit) == VerifyFrom(FileLines(file), 0, limit, ZeroStats)

-----------------------------------------------------------------------------
(* vectorstore.py: FAISSVectorStore, one tenant *)

Adders == {"a1", "a2"}

Searchers == {"s1"}

VProcs == Adders \cup Searchers

\* A file on disk.
AbsentIndex == [st |-> "absent", vecs |-> <<>>]

CorruptIndex == [st |-> "corrupt", vecs |-> <<>>]

IndexFileOf(vecs) == [st |-> "ok", vecs |-> vecs]

EmptyMap == <<>>

AbsentMeta == [st |-> "absent", map |-> EmptyMap]

CorruptMeta == [st |-> "corrupt", map |-> EmptyMap]

MetaFileOf(map) == [st |-> "ok", map |-> map]

\* _load_index: None when the file is absent and None when reading it raises.
NoIndex == [some |-> FALSE, vecs |-> <<>>]

LoadIndex(file) ==
    IF file.st = "ok" THEN [some |-> TRUE, vecs |-> file.vecs] ELSE NoIndex

\* _load_metadata: {} when the file is absent and {} when reading it raises.
LoadMetadata(file) == IF file.st = "ok" THEN file.map ELSE EmptyMap

\* vector_id = meta.get('chunk_id', ...) for each record of the batch.
VectorIds(metadata) == [i \in 1..Len(metadata) |-> metadata[i].chunk_id]

\* The record mapped at its place in the batch, whatever the index holds.
MetaAfterFromZero(map, start, i, vector_id) ==
    [x \in DOMAIN map \cup {i} |-> IF x = i THEN vector_id ELSE map[x]]

\* index_metadata[start_idx + i] = vector_id (a position already in the map
\* is replaced).
MetaAfter(map, start, i, vector_id) ==
    [x \in DOMAIN map \cup {start + i} |->
        IF x = start + i THEN vector_id ELSE map[x]]

\* The row save_vector_metadata adds and commits for record i of the batch.
RowOf(vector_id, meta, start, i) ==
    [vector_id |-> vector_id, chunk_id |-> meta.chunk_id, faiss_index |-> start + i]

\* vector_id is unique in the table: the commit of a row whose vector_id a
\* stored row has raises IntegrityError.
Clashes(rows, vector_id) == \E r \in rows : r.vector_id = vector_id

\* The vectors have one dimension: the coordinate of each, and the
\* coordinates of the queries. No two vectors are equally far from a query.
Coord(v) ==
    CASE v = "v0" -> 12 [] v = "v1" -> 4 [] v = "v2" -> 20 [] v = "v3" -> 0
      [] v = "v4" -> 8 [] v = "v5" -> 16 [] OTHER -> 24

Queries == {1, 15}

\* The query of the searches that run beside add_vectors calls (SpecVS).
VSQueries == {1}

\* IndexFlatL2 (line 41): the squared Euclidean distance.
DistanceOf(q, v) == (Coord(v) - q) * (Coord(v) - q)

\* The positions of the index from the nearest to the query to the farthest.
RECURSIVE NearestFirst(_, _, _)
NearestFirst(vecs, q, left) ==
    IF left = {} THEN <<>>
    ELSE LET pos == CHOOSE x \in left : \A y \in left :
                        \/ DistanceOf(q, vecs[x + 1]) < DistanceOf(q, vecs[y + 1])
                        \/ /\ DistanceOf(q, vecs[x + 1]) = DistanceOf(q, vecs[y + 1])
                           /\ x <= y
         IN  <<pos>> \o NearestFirst(vecs, q, left \ {pos})

\* index.search(query_np, min(top_k, index.ntotal)), line 171: the positions
\* of the nearest vectors, nearest first.
TopPositions(vecs, q, top_k) ==
    SubSeq(NearestFirst(vecs, q, 0..(Len(vecs) - 1)), 1,
           IF top_k < Len(vecs) THEN top_k ELSE Len(vecs))

\* An id search keeps (`if vector_id:`, line 180): one the map holds that is
\* not the empty string.
NamedAt(map, pos) == pos \in DOMAIN map /\ map[pos] # ""

\* search, lines 173-187: for each position the index returned, in that
\* order, the id index_metadata.get gives it; a result is appended when the
\* id is truthy, with the distance as its score.
SearchResults(vecs, map, q, top_k) ==
    LET hits == SelectSeq(TopPositions(vecs, q, top_k), LAMBDA pos : NamedAt(map, pos))
    IN  [i \in 1..Len(hits) |->
            [vector_id |-> map[hits[i]], score |-> DistanceOf(q, vecs[hits[i] + 1]),
             faiss_index |-> hits[i]]]

\* The batches add_vectors is called with: vectors and records.
Rec(c) == [chunk_id |-> c]

Batches ==
    { [vectors |-> <<"v1">>, metadata |-> <<Rec("c1")>>],
      [vectors |-> <<"v2", "v3">>, metadata |-> <<Rec("c2"), Rec("c3")>>],
      [vectors |-> <<"v4", "v5">>, metadata |-> <<Rec("c4")>>],
      [vectors |-> <<>>, metadata |-> <<Rec("c4")>>],
      [vectors |-> <<>>, metadata |-> <<>>] }

\* The batches of SpecSeq: those, and one whose record has an empty chunk id.
SeqBatches == Batches \cup {[vectors |-> <<"v6">>, metadata |-> <<Rec("")>>]}

TopKs == {1, 3}

NoLocals ==
    [batch |-> [vectors |-> <<>>, metadata |-> <<>>], index |-> NoIndex,
     map |-> EmptyMap, start |-> 0, i |-> 0, ids |-> <<>>, top_k |-> 0,
     query |-> 0,
     sawMap |-> FALSE, op |-> "none", result |-> <<>>]

\* The files a tenant can have when a call begins: none, the pair
\* create_index wrote when the tenant was made, a saved pair, or a pair one
\* of whose files can no longer be read.
StartFiles ==
    { <<AbsentIndex, AbsentMeta>>,
      <<IndexFileOf(<<>>), MetaFileOf(EmptyMap)>>,
      <<IndexFileOf(<<"v0">>), MetaFileOf(0 :> "c0")>>,
      <<CorruptIndex, MetaFileOf(0 :> "c0")>>,
      <<IndexFileOf(<<"v0">>), CorruptMeta>> }

StartRows(files) ==
    IF files[2].st = "absent" \/ files[2] = MetaFileOf(EmptyMap) THEN {}
    ELSE {[vector_id |-> "c0", chunk_id |-> "c0", faiss_index |-> 0]}

InitVSWith(files) ==
    /\ idxFile = files[1]
    /\ metaFile = files[2]
    /\ tmpDir = {}
    /\ db = StartRows(files)
    /\ vpc = [p \in VProcs |-> "idle"]
    /\ vloc = [p \in VProcs |-> NoLocals]
    /\ vPre = [p \in VProcs |-> files]
    /\ vCalls = [p \in VProcs |-> 0]
    /\ vAdded = 0
    /\ vReset = FALSE
    /\ committed = IF files[1].st = "ok" /\ files[2].st = "ok"
                   THEN {<<files[1].vecs, files[2].map>>}
                   ELSE {<<<<>>, EmptyMap>>}
    /\ vBase = files

\* The vector store of a tenant that has nothing stored and no call running.
VSIdle == InitVSWith(<<AbsentIndex, AbsentMeta>>)

-----------------------------------------------------------------------------
(* redaction.py: PIIDetector and TextRedactor *)

\* A text is the sequence of its characters. text[a:b] for 0 <= a, b (an end
\* beyond the text is cut to it).
Slice(text, a, b) == SubSeq(text, a + 1, IF b < Len(text) THEN b ELSE Len(text))

SliceFrom(text, a) == Slice(text, a, Len(text))

\* confidence of a pattern match (0.9) and of a model entity (0.7), in tenths.
RegexConfidence == 9

SpacyConfidence == 7

\* The span dict detect_pii builds for a match of text[start:end].
SpanOf(text, type, start, end, method) ==
    [type |-> type, start |-> start, end |-> end, text |-> Slice(text, start, end),
     confidence |-> IF method = "regex" THEN RegexConfidence ELSE SpacyConfidence,
     method |-> method]

\* sorted(seq, key=...): stable. keys[i] is the key of seq[i], a pair compared
\* as Python compares tuples; items with equal keys keep their order
\* (reverse=True keeps it too: it is the sort by the negated key).
SortedByKey(seq, keys) ==
    LET less(a, b) == a[1] < b[1] \/ (a[1] = b[1] /\ a[2] < b[2])
        place == [i \in 1..Len(seq) |->
                    1 + Cardinality({j \in 1..Len(seq) :
                            \/ less(keys[j], keys[i])
                            \/ keys[j] = keys[i] /\ j < i})]
    IN  [n \in 1..Len(seq) |-> seq[CHOOSE i \in 1..Len(seq) : place[i] = n]]

\* key start
ByStart(spans) == SortedByKey(spans, [i \in 1..Len(spans) |-> <<spans[i].start, 0>>])

Overlaps(a, b) == a.start < b.end /\ a.end > b.start

\* Every candidate kept, in the sorted order.
KeepAll(sorted, i, result) == sorted

\* A candidate kept unless it overlaps a candidate visited before it, kept
\* or not.
KeepUnlessEarlierOverlaps(sorted, i, result) ==
    LET keep == {n \in 1..Len(sorted) :
                    \A j \in 1..(n - 1) : ~Overlaps(sorted[n], sorted[j])}
    IN  [k \in 1..Cardinality(keep) |->
            sorted[CHOOSE n \in keep : Cardinality({m \in keep : m < n}) = k - 1]]

\* The loop of _remove_overlaps over the sorted spans: a span is appended to
\* result unless it overlaps a span already in result.
RECURSIVE KeepNonOverlapping(_, _, _)
KeepNonOverlapping(sorted, i, result) ==
    IF i > Len(sorted) THEN result
    ELSE KeepNonOverlapping(sorted, i + 1,
            IF \E k \in 1..Len(result) : Overlaps(sorted[i], result[k])
            THEN result
            ELSE Append(result, sorted[i]))

RemoveOverlaps(spans) ==
    IF spans = <<>> THEN spans
    ELSE KeepNonOverlapping(
            SortedByKey(spans, [i \in 1..Len(spans) |->
                                  <<spans[i].start, -spans[i].confidence>>]),
            1, <<>>)

\* detect_pii(text), found being the candidate spans the pattern tier and
\* then the model tier produce for the text, in the order they are appended.
DetectPii(found) == ByStart(RemoveOverlaps(found))

\* _mask_text: the label of the type, '[PII]' for a type without one.
MaskText(type) ==
    CASE type = "ssn" -> <<"[", "S", "S", "N", "]">>
      [] type = "phone" -> <<"[", "P", "H", "O", "N", "E", "]">>
      [] type = "email" -> <<"[", "E", "M", "A", "I", "L", "]">>
      [] type = "credit_card" -> <<"[", "C", "A", "R", "D", "]">>
      [] type = "person" -> <<"[", "N", "A", "M", "E", "]">>
      [] type = "org" -> <<"[", "O", "R", "G", "]">>
      [] type = "date_of_birth" -> <<"[", "D", "O", "B", "]">>
      [] type = "zip_code" -> <<"[", "Z", "I", "P", "]">>
      [] OTHER -> <<"[", "P", "I", "I", "]">>

\* _hash_text: '[' prefix ':' the first 8 hex digits of
\* sha256(salt:text:type) ']'; each digit is one character of the text.
HashPrefix(type) ==
    CASE type = "ssn" -> <<"S", "S", "N">>
      [] type = "phone" -> <<"P", "H">>
      [] type = "email" -> <<"E", "M">>
      [] type = "credit_card" -> <<"C", "C">>
      [] type = "person" -> <<"N", "M">>
      [] type = "org" -> <<"O", "R">>
      [] type = "date_of_birth" -> <<"D", "O", "B">>
      [] type = "zip_code" -> <<"Z", "I", "P">>
      [] OTHER -> <<"P", "I", "I">>

HashDigits(salt, text, type) ==
    [k \in 1..8 |-> ToString(<<"sha256", salt, text, type, k>>)]

HashText(salt, text, type) ==
    <<"[">> \o HashPrefix(type) \o <<":">> \o HashDigits(salt, text, type) \o <<"]">>

Replacement(span, mode, salt) ==
    CASE mode = "mask" -> MaskText(span.type)
      [] mode = "hash" -> HashText(salt, span.text, span.type)
      [] mode = "remove" -> <<>>

AppliedRedaction(span, mode, salt) ==
    [original_start |-> span.start, original_end |-> span.end,
     original_text |-> span.text, replacement |-> Replacement(span, mode, salt),
     type |-> span.type, mode |-> mode, confidence |-> span.confidence]

\* The spans put in the order the starts were given: ascending.
RedactionOrderAscending(spans) == ByStart(spans)

\* The spans taken in the order the caller gave them.
RedactionOrderGiven(spans) == spans

\* sorted(pii_spans, key=start, reverse=True): from the last span to the first.
RedactionOrder(spans) ==
    SortedByKey(spans, [i \in 1..Len(spans) |-> <<-spans[i].start, 0>>])

\* The loop of redact_text: each span's range of the text as it now stands is
\* replaced; an unknown mode raises ValueError at the first span.
RECURSIVE ApplySpans(_, _, _, _, _, _)
ApplySpans(text, ordered, i, mode, salt, applied) ==
    IF i > Len(ordered) THEN [ok |-> TRUE, text |-> text, applied |-> applied]
    ELSE IF mode \notin {"mask", "hash", "remove"}
         THEN [ok |-> FALSE, text |-> <<>>, applied |-> <<>>]
    ELSE ApplySpans(Slice(text, 0, ordered[i].start)
                        \o Replacement(ordered[i], mode, salt)
                        \o SliceFrom(text, ordered[i].end),
                    ordered, i + 1, mode, salt,
                    Append(applied, AppliedRedaction(ordered[i], mode, salt)))

\* redact_text(text, pii_spans, mode, tenant_salt)
RedactText(text, spans, mode, salt) ==
    IF spans = <<>> THEN [ok |-> TRUE, text |-> text, applied |-> <<>>]
    ELSE ApplySpans(text, RedactionOrder(spans), 1, mode, salt, <<>>)

-----------------------------------------------------------------------------
(* queries.py: search_text and summarize_doc *)

\* sep.join(list)
RECURSIVE Join(_, _)
Join(list, sep) ==
    IF list = <<>> THEN <<>>
    ELSE IF Len(list) = 1 THEN list[1]
    ELSE list[1] \o sep \o Join(Tail(list), sep)

\* sub in text
Contains(sub, text) ==
    \E i \in 0..(Len(text) - Len(sub)) : Slice(text, i, i + Len(sub)) = sub

\* text.split(sep): cut at each occurrence of sep, from the left.
RECURSIVE Split(_, _)
Split(text, sep) ==
    IF ~Contains(sep, text) THEN <<text>>
    ELSE LET i == CHOOSE k \in 0..(Len(text) - Len(sep)) :
                     /\ Slice(text, k, k + Len(sep)) = sep
                     /\ \A m \in 0..(k - 1) : Slice(text, m, m + Len(sep)) # sep
         IN  <<Slice(text, 0, i)>> \o Split(SliceFrom(text, i + Len(sep)), sep)

\* The characters str.strip() and str.split() take as whitespace
\* (str.isspace()); one that TLA+ has no way to write is held by its Python
\* escape.
Whitespace ==
    { "\t", "\n", "\\x0b", "\f", "\r", "\\x1c", "\\x1d", "\\x1e", "\\x1f", " ",
      "\\x85", "\\xa0", "\\u1680", "\\u2000", "\\u2001", "\\u2002", "\\u2003",
      "\\u2004", "\\u2005", "\\u2006", "\\u2007", "\\u2008", "\\u2009", "\\u200a",
      "\\u2028", "\\u2029", "\\u202f", "\\u205f", "\\u3000" }

\* text.strip()
RECURSIVE Strip(_)
Strip(text) ==
    IF text = <<>> THEN text
    ELSE IF text[1] \in Whitespace THEN Strip(Tail(text))
    ELSE IF text[Len(text)] \in Whitespace THEN Strip(SubSeq(text, 1, Len(text) - 1))
    ELSE text

\* text.split(): the words between runs of whitespace.
RECURSIVE Words(_, _)
Words(text, word) ==
    IF text = <<>> THEN (IF word = <<>> THEN <<>> ELSE <<word>>)
    ELSE IF text[1] \in Whitespace
         THEN (IF word = <<>> THEN <<>> ELSE <<word>>) \o Words(Tail(text), <<>>)
    ELSE Words(Tail(text), Append(word, text[1]))

\* text.lower() on the characters the model uses.
UpperChars == <<"A", "B", "C", "D", "E", "G", "H", "I", "L", "M", "N", "O", "P",
                "R", "S", "Z">>

LowerChars == <<"a", "b", "c", "d", "e", "g", "h", "i", "l", "m", "n", "o", "p",
                "r", "s", "z">>

LowerChar(ch) ==
    IF \E i \in 1..Len(UpperChars) : UpperChars[i] = ch
    THEN LowerChars[CHOOSE i \in 1..Len(UpperChars) : UpperChars[i] = ch]
    ELSE ch

Lower(text) == [i \in 1..Len(text) |-> LowerChar(text[i])]

\* seq[:n]
Take(seq, n) == SubSeq(seq, 1, IF n < Len(seq) THEN n ELSE Len(seq))

\* The loop body both handlers run on a chunk text: as it is for a caller
\* with pii:view, else through detect_pii and redact_text(mode="mask").
ProcessedText(text, found, canViewPii) ==
    IF canViewPii THEN text
    ELSE RedactText(text, DetectPii(found), "mask", "default").text

\* summarize_doc, lines 178-185: the first three sentences of the joined
\* chunks, a '.' added when the summary does not end with one.
SentencesOf(processed) == Split(Join(processed, <<"\n", "\n">>), <<".", " ">>)

SummaryOf(sentences) ==
    LET summary == Join(Take(sentences, 3), <<".", " ">>)
    IN  IF summary # <<>> /\ summary[Len(summary)] # "."
        THEN Append(summary, ".") ELSE summary

\* summarize_doc, lines 187-204: up to three of the first ten sentences that
\* hold one of the words, stripped.
DefaultKeywords ==
    << <<"i", "m", "p", "o", "r", "t", "a", "n", "t">>, <<"k", "e", "y">>,
       <<"s", "i", "g", "n", "i", "f", "i", "c", "a", "n", "t">>,
       <<"m", "a", "i", "n">>, <<"p", "r", "i", "m", "a", "r", "y">> >>

HasWord(sentence, words) ==
    \E w \in 1..Len(words) : Contains(words[w], Lower(sentence))

HighlightsOf(sentences, query) ==
    LET words == IF query # <<>> THEN Words(Lower(query), <<>>) ELSE DefaultKeywords
        hits == SelectSeq(Take(sentences, 10), LAMBDA sentence : HasWord(sentence, words))
    IN  [i \in 1..Len(Take(hits, 3)) |-> Strip(hits[i])]

\* What a handler returns: an HTTP status and, with 200, the body.
Reply(status) ==
    [status |-> status, items |-> <<>>, summary |-> <<>>, highlights |-> <<>>]

\* The checks both handlers make first: tenant id format (400), verify_token
\* (401 for a token that is expired, invalid or lacks a claim; the handler
\* lets the HTTPException through), token tenant (403), permission (403);
\* search_text then needs the query embedding (500).
GateStatus(gate) ==
    CASE gate = "bad_tenant" -> 400
      [] gate = "bad_token" -> 401
      [] gate = "wrong_tenant" -> 403
      [] gate = "no_permission" -> 403
      [] gate = "no_embedding" -> 500

\* search_text, lines 76-94: what the loop appends for each search result; a
\* result without 'text' raises KeyError at result["text"] for a caller with
\* pii:view.
SearchItem(item, canViewPii) ==
    [chunk_id |-> item.vector_id, score |-> item.score,
     text |-> ProcessedText(IF item.hasText THEN item.text ELSE <<>>,
                            IF item.hasText THEN item.found ELSE <<>>, canViewPii)]

SearchRaises(req) ==
    req.canViewPii /\ \E i \in 1..Len(req.items) : ~req.items[i].hasText

SearchAudit(req) ==
    [action |-> "search", query_length |-> Len(req.query),
     results_count |-> Len(req.items)]

\* write_audit_event(audit_event) swallowed: the handler goes on whether or
\* not the call raised.
AuditWriteIgnored(req) == TRUE

\* write_audit_event(audit_event) returned; an exception it raises leaves the
\* handler through `except Exception` (500).
AuditWritten(req) == req.auditOk

\* search_text: the response, and the audit event handed to write_audit_event
\* (<<>>: the handler did not get that far).
SearchText(req) ==
    IF req.gate # "ok" THEN [reply |-> Reply(GateStatus(req.gate)), audit |-> <<>>]
    ELSE IF SearchRaises(req) THEN [reply |-> Reply(500), audit |-> <<>>]
    ELSE IF ~AuditWritten(req) THEN [reply |-> Reply(500), audit |-> <<>>]
    ELSE [reply |-> [Reply(200) EXCEPT
                       !.items = [i \in 1..Len(req.items) |->
                                     SearchItem(req.items[i], req.canViewPii)]],
          audit |-> <<SearchAudit(req)>>]

\* summarize_doc, lines 166-176: processed_chunks.
ProcessedChunks(req) ==
    [i \in 1..Len(req.items) |->
        ProcessedText(req.items[i].text, req.items[i].found, req.canViewPii)]

\* summarize_doc, lines 178-204: the summary and the highlights the handler
\* builds for its response.
SummaryBuilt(req) ==
    [summary |-> SummaryOf(SentencesOf(ProcessedChunks(req))),
     highlights |-> HighlightsOf(SentencesOf(ProcessedChunks(req)), req.query)]

SummarizeAudit(req) ==
    [action |-> "summarize",
     summary_length |-> Len(SummaryBuilt(req).summary),
     chunks_processed |-> Len(req.items), pii_redacted |-> ~req.canViewPii]

\* summarize_doc: the response and the audit event handed over. After
\* write_audit_event has returned, `return SummarizeResponse(summary=..,
\* highlights=.., signed_audit_id=..)` (232-236) raises ValidationError: the
\* class, models.py 61-66, requires confidence_score and document_title as
\* well; `except Exception` (240) answers 500, the audit event written.
SummarizeDoc(req) ==
    IF req.gate # "ok" THEN [reply |-> Reply(GateStatus(req.gate)), audit |-> <<>>]
    ELSE IF req.items = <<>> THEN [reply |-> Reply(404), audit |-> <<>>]
    ELSE IF ~AuditWritten(req) THEN [reply |-> Reply(500), audit |-> <<>>]
    ELSE [reply |-> Reply(500), audit |-> <<SummarizeAudit(req)>>]

\* The candidate spans the two tiers can find in a text: pattern matches of
\* two patterns, then entities of the model.
Tiers ==
    { [type |-> "ssn", method |-> "regex", rank |-> 1],
      [type |-> "phone", method |-> "regex", rank |-> 2],
      [type |-> "person", method |-> "spacy", rank |-> 3] }

Candidates(text) ==
    {[span |-> SpanOf(text, t.type, start, end, t.method), rank |-> t.rank] :
        t \in Tiers, start \in 0..(Len(text) - 1), end \in 1..Len(text)}

\* b can be appended after a: a later pattern or tier, or a later match of
\* the same one (finditer and doc.ents give matches that do not overlap).
FoundAfter(a, b) ==
    \/ a.rank < b.rank
    \/ a.rank = b.rank /\ a.span.end <= b.span.start

RECURSIVE FoundUpTo(_, _)
FoundUpTo(text, n) ==
    IF n = 0 THEN {<<>>}
    ELSE LET shorter == FoundUpTo(text, n - 1)
         IN  shorter \cup
             UNION {{Append(f, c) :
                        c \in {d \in Candidates(text) :
                                  /\ d.span.start < d.span.end
                                  /\ f = <<>> \/ FoundAfter(f[Len(f)], d)}} :
                    f \in {g \in shorter : Len(g) = n - 1}}

\* What the tiers can find in a text: up to n candidate spans.
FoundWithin(text, n) ==
    {[i \in 1..Len(f) |-> f[i].span] : f \in FoundUpTo(text, n)}

FoundChoices(text) == FoundWithin(text, MaxFound)

\* The texts of the stored chunks, and the chunks with what can be found in
\* them.
SampleTexts == { <<"a", "b", "c">>, <<"a", ".", " ">> }

ChunkOf(text, found) ==
    [vector_id |-> "chunk_1", score |-> 1, hasText |-> TRUE, text |-> text,
     found |-> found]

PlainChunk ==
    [vector_id |-> "chunk_2", score |-> 2, hasText |-> TRUE, text |-> <<"d">>,
     found |-> <<>>]

NoTextResult ==
    [vector_id |-> "chunk_3", score |-> 0, hasText |-> FALSE, text |-> <<>>,
     found |-> <<>>]

Chunks ==
    UNION {{ChunkOf(text, found) : found \in FoundWithin(text, MaxItemFound)} :
              text \in SampleTexts}

RequestOf(op, gate, canViewPii, auditOk, items, query) ==
    [op |-> op, gate |-> gate, canViewPii |-> canViewPii, auditOk |-> auditOk,
     items |-> items, query |-> query]

NoRequest == RequestOf("none", "ok", FALSE, FALSE, <<>>, <<>>)

\* The requests search_text gets: the query is a str; vector_search returns a
\* list of results.
SearchRequests ==
    {RequestOf("search", "ok", canViewPii, auditOk, items, <<"q">>) :
        canViewPii \in BOOLEAN, auditOk \in BOOLEAN,
        items \in {<<>>} \cup {<<c>> : c \in Chunks} \cup {<<NoTextResult, c>> : c \in Chunks}}
    \cup
    {RequestOf("search", gate, FALSE, TRUE, <<PlainChunk>>, <<"q">>) :
        gate \in {"bad_tenant", "bad_token", "wrong_tenant", "no_permission",
                  "no_embedding"}}

\* The requests summarize_doc gets: the query is optional; get_document_chunks
\* returns the chunks of the document.
SummarizeRequests ==
    {RequestOf("summarize", "ok", canViewPii, auditOk, items, query) :
        canViewPii \in BOOLEAN, auditOk \in BOOLEAN,
        items \in {<<>>} \cup {<<c>> : c \in Chunks} \cup {<<c, PlainChunk>> : c \in Chunks},
        query \in {<<>>, <<"s", "s", "n">>}}
    \cup
    {RequestOf("summarize", gate, FALSE, TRUE, <<PlainChunk>>, <<>>) :
        gate \in {"bad_tenant", "bad_token", "wrong_tenant", "no_permission"}}

\* No function of the services is being called on its own.
NoFn == [fn |-> "none"]

FnIdle ==
    /\ fnCall = NoFn
    /\ fnResult = <<>>

\* No request is being answered.
QueryIdle ==
    /\ request = NoRequest
    /\ response = Reply(0)
    /\ audited = <<>>

-----------------------------------------------------------------------------
(* The ledger used by one caller at a time: whole calls *)

\* The arguments write_audit_event is called with: the action and the ids
\* are fixed, request_data and response_data vary. request_data is
\* Dict[str, Any]: a value in it can be a dict with int keys.
CallWith(request_data, response_data) ==
    [action |-> PyStr("search"), tenant_id |-> PyStr("t1"),
     user_id |-> PyStr("u1"), resource |-> None,
     request_data |-> request_data, response_data |-> response_data]

PlainRequest == Obj(<< <<PyStr("q"), PyStr("x")>> >>)

IntKeyRequest ==
    Obj(<< <<PyStr("filters"),
             Obj(<< <<PyInt(2), PyStr("x")>>, <<PyInt(10), PyStr("y")>> >>)>> >>)

SomeResponse == Obj(<< <<PyStr("n"), PyInt(1)>> >>)

\* The calls whose request_data has str keys at every level.
StrKeyCalls == { CallWith(None, None), CallWith(PlainRequest, SomeResponse) }

Calls == StrKeyCalls \cup { CallWith(IntKeyRequest, None) }

NoCall == CallWith(None, None)

NoResult ==
    [op |-> "none", ok |-> TRUE, audit_id |-> None, read |-> NotFound,
     limit |-> 0, stats |-> ZeroStats]

Writers == {"w1", "w2"}

InitWriters ==
    /\ wStage = [w \in Writers |-> "idle"]
    /\ wCall = [w \in Writers |-> NoCall]
    /\ wEvent = [w \in Writers |-> <<>>]
    /\ wOffset = [w \in Writers |-> 0]

\* What the calls of the ledger leave alone.
notLedger == <<vsVars, queryVars, fnVars>>

LedgerIdle ==
    /\ log = <<>>
    /\ clock = 0
    /\ opRes = NoResult
    /\ returned = {}
    /\ written = <<>>
    /\ tampered = {}
    /\ InitWriters

InitLedger == LedgerIdle /\ VSIdle /\ QueryIdle /\ FnIdle

\* datetime.utcnow() of a call: the time of the call before it, or later.
Ticks == {dt \in {0, 1} : clock + dt <= MaxClock}

\* The end of a write that went well: the line is appended and audit_id
\* returned.
Appended(offset, event) ==
    \E line \in {LineOf(event)} :
        /\ log' = AppendLine(log, offset, line)
        /\ written' = Append(written, line)
        /\ returned' = returned \cup {DictGet(line[2][2], K("audit_id"), None)}
        /\ opRes' = [NoResult EXCEPT !.op = "write",
                                     !.audit_id = DictGet(line[2][2], K("audit_id"), None)]

\* What opening the file and writing the line can do: the line is written
\* ("ok"); nothing is written ("fails": the file cannot be opened, or no byte
\* goes through); the write stops partway, at a full disk or a file size
\* limit, and the first bytes of the line stay in the file ("cut"), or all
\* of them but the line break ("unended").
AppendOutcomes == {"ok", "fails", "cut", "unended"}

\* The end of a write that failed partway: the fragment stays at the end of
\* the file and the call raises.
CutShort(event, io) ==
    /\ log' = Append(log, FragmentOf(event, io))
    /\ opRes' = [NoResult EXCEPT !.op = "write", !.ok = FALSE]
    /\ UNCHANGED <<written, returned>>

\* write_audit_event(call): the whole call. signOk: sign_payload returns (it
\* raises ValueError otherwise); io: what opening and writing the file does.
\* Any exception leaves as RuntimeError.
LedgerWrite(call, dt, signOk, io) ==
    /\ Len(log) < MaxWrites
    /\ IF signOk /\ io = "ok"
       THEN /\ clock' = clock + dt
            /\ Appended(Len(log), SignedEvent(clock + dt, call))
       ELSE IF signOk /\ io \in {"cut", "unended"}
       THEN /\ clock' = clock + dt
            /\ CutShort(SignedEvent(clock + dt, call), io)
       ELSE /\ opRes' = [NoResult EXCEPT !.op = "write", !.ok = FALSE]
            /\ UNCHANGED <<log, clock, written, returned>>
    /\ UNCHANGED <<tampered, writerVars>>
    /\ UNCHANGED notLedger

\* read_audit_event(audit_id): the whole call.
LedgerRead(audit_id) ==
    /\ opRes' = [NoResult EXCEPT !.op = "read", !.audit_id = audit_id,
                                 !.read = ReadAuditEvent(log, audit_id)]
    /\ UNCHANGED <<log, clock, returned, written, tampered, writerVars>>
    /\ UNCHANGED notLedger

\* verify_audit_integrity(limit): the whole call (limit 0: no limit).
LedgerVerify(limit) ==
    /\ opRes' = [NoResult EXCEPT !.op = "verify", !.limit = limit,
                                 !.stats = VerifyAuditIntegrity(log, limit)]
    /\ UNCHANGED <<log, clock, returned, written, tampered, writerVars>>
    /\ UNCHANGED notLedger

\* An id no write returned.
UnknownId == <<"hex", PyStr("unknown")>>

NextLedger ==
    \/ \E call \in Calls, dt \in Ticks, signOk \in BOOLEAN, io \in AppendOutcomes :
          LedgerWrite(call, dt, signOk, io)
    \/ \E audit_id \in returned \cup {UnknownId} : LedgerRead(audit_id)
    \/ \E limit \in 0..Len(log) : LedgerVerify(limit)

SpecLedger == InitLedger /\ [][NextLedger]_vars

\* C5: after any sequence of successful writes on a log that was absent (no
\* write has failed partway and left a fragment in it), reading a returned
\* audit_id finds that event with signature_valid true, and
\* verify_audit_integrity() counts every written line as valid and nothing
\* as invalid, malformed or missing.
C5_WrittenEventsVerify ==
    /\ (opRes.op = "read" /\ opRes.audit_id \in returned /\ WholeLines(log)) =>
          /\ opRes.read.found
          /\ DictGet(opRes.read.event, K("audit_id"), None) = opRes.audit_id
          /\ opRes.read.signature_valid
    /\ (opRes.op = "verify" /\ opRes.limit = 0 /\ WholeLines(log)) =>
          /\ ~opRes.stats.raised
          /\ opRes.stats.total_events = Len(written)
          /\ opRes.stats.valid_signatures = Len(written)
          /\ opRes.stats.invalid_signatures = 0
          /\ opRes.stats.malformed_events = 0
          /\ opRes.stats.missing_signatures = 0

IsPrefix(s, t) == Len(s) <= Len(t) /\ SubSeq(t, 1, Len(s)) = s

\* C9: no ledger operation modifies or removes an existing line: the log
\* before a step is a prefix of the log after it, and a step of
\* read_audit_event or verify_audit_integrity leaves the log as it was.
C9_AppendOnly ==
    [][/\ IsPrefix(log, log')
       /\ opRes'.op \in {"read", "verify"} => log' = log]_vars

\* A read found an event on a log of two lines or more.
C9_ReadOnLongLog ==
    /\ Len(log) >= 2
    /\ opRes.op = "read"
    /\ opRes.read.found

-----------------------------------------------------------------------------
(* The ledger with one stored line edited outside the service *)

\* The edits of a stored line: its signature replaced, another field
\* replaced, its signature_algorithm replaced, its signature_algorithm
\* removed. The audit_id stays as it was, so the line is still found.
Mutations == {"signature", "field", "algorithm", "drop_algorithm"}

MutatedPairs(pairs, m) ==
    CASE m = "signature" ->
           DictSet(pairs, K("signature"), <<"b64", SigningKey, PyStr("flipped")>>)
      [] m = "field" -> DictSet(pairs, K("action"), PyStr("tampered"))
      [] m = "algorithm" -> DictSet(pairs, K("signature_algorithm"), PyStr("none"))
      [] m = "drop_algorithm" -> DictDel(pairs, K("signature_algorithm"))

MutatedLine(line, m) == <<"json", Obj(MutatedPairs(line[2][2], m))>>

\* Line i of the log file is rewritten in place, once.
Tamper(i, m) ==
    /\ tampered = {}
    /\ IsEventObject(log[i])
    /\ log' = [log EXCEPT ![i] = MutatedLine(log[i], m)]
    /\ tampered' = {i}
    /\ opRes' = [NoResult EXCEPT !.op = "tamper"]
    /\ UNCHANGED <<clock, returned, written, writerVars>>
    /\ UNCHANGED notLedger

NextTamper ==
    \/ \E call \in StrKeyCalls, dt \in Ticks, signOk \in BOOLEAN,
          io \in AppendOutcomes :
            LedgerWrite(call, dt, signOk, io)
    \/ \E i \in 1..Len(log), m \in Mutations : Tamper(i, m)
    \/ \E audit_id \in returned \cup {UnknownId} : LedgerRead(audit_id)
    \/ \E limit \in 0..Len(log) : LedgerVerify(limit)

SpecTamper == InitLedger /\ [][NextTamper]_vars

\* The audit_id a stored line carries.
AuditIdAt(i) == DictGet(JsonLoads(log[i][2])[2], K("audit_id"), None)

\* The number of lines verify_audit_integrity(limit) examines.
Examined(limit) == IF limit = 0 \/ limit > Len(log) THEN Len(log) ELSE limit

\* C6: after a stored line was edited (its signature or any other field, the
\* audit_id left as it was), read_audit_event of its audit_id finds the line
\* and reports signature_valid false, and verify_audit_integrity does not
\* count the line as valid (here: on a log in which no write has left a
\* fragment, so that every stored line is a line of the file).
C6_MutationDetected ==
    \A i \in tampered :
        /\ ( /\ opRes.op = "read"
             /\ WholeLines(log)
             /\ opRes.audit_id = AuditIdAt(i)
             /\ \A j \in 1..(i - 1) : AuditIdAt(j) # AuditIdAt(i) ) =>
                 opRes.read.found /\ ~opRes.read.signature_valid
        /\ ( /\ opRes.op = "verify"
             /\ WholeLines(log)
             /\ Examined(opRes.limit) >= i ) =>
                 opRes.stats.valid_signatures <= Examined(opRes.limit) - 1

-----------------------------------------------------------------------------
(* write_audit_event step by step, two callers at once *)

\* Where a call is: Created (the event dict is built), Hashed (audit_id and
\* result_hash are in it), Signed (signature and signature_algorithm are in
\* it), opened (the log file is open for append), Appended (the line is
\* written and the file closed), failed (the call raised).
StageRank ==
    [idle |-> 0, Created |-> 1, Hashed |-> 2, Signed |-> 3, opened |-> 4,
     Appended |-> 5, failed |-> 6]

Raise(w) ==
    /\ wStage' = [wStage EXCEPT ![w] = "failed"]
    /\ opRes' = [NoResult EXCEPT !.op = "write", !.ok = FALSE]

\* Lines 48-59: the event dict with the time of the call.
WriterCreate(w, call, dt) ==
    /\ wStage[w] = "idle"
    /\ Len(log) + Cardinality({v \in Writers : wStage[v] # "idle"}) < MaxWrites
    /\ clock' = clock + dt
    /\ wStage' = [wStage EXCEPT ![w] = "Created"]
    /\ wCall' = [wCall EXCEPT ![w] = call]
    /\ wEvent' = [wEvent EXCEPT ![w] = BaseEvent(clock + dt, call)]
    /\ wOffset' = [wOffset EXCEPT ![w] = 0]
    /\ UNCHANGED <<log, opRes, returned, written, tampered>>
    /\ UNCHANGED notLedger

\* Lines 61-69: audit_id, then result_hash. dumpOk: json.dumps of the event
\* returns (it raises on a value it cannot serialize).
WriterHash(w, dumpOk) ==
    /\ wStage[w] = "Created"
    /\ IF dumpOk
       THEN /\ wStage' = [wStage EXCEPT ![w] = "Hashed"]
            /\ wEvent' = [wEvent EXCEPT ![w] = WithResultHash(WithAuditId(@), wCall[w])]
            /\ UNCHANGED opRes
       ELSE Raise(w) /\ UNCHANGED wEvent
    /\ UNCHANGED <<log, clock, returned, written, tampered, wCall, wOffset>>
    /\ UNCHANGED notLedger

\* Lines 71-75: the signature. signOk: sign_payload returns.
WriterSign(w, signOk) ==
    /\ wStage[w] = "Hashed"
    /\ IF signOk
       THEN /\ wStage' = [wStage EXCEPT ![w] = "Signed"]
            /\ wEvent' = [wEvent EXCEPT ![w] = WithSignature(@)]
            /\ UNCHANGED opRes
       ELSE Raise(w) /\ UNCHANGED wEvent
    /\ UNCHANGED <<log, clock, returned, written, tampered, wCall, wOffset>>
    /\ UNCHANGED notLedger

\* Line 78: open(log_path, 'a').
WriterOpen(w, ioOk) ==
    /\ wStage[w] = "Signed"
    /\ IF ioOk
       THEN /\ wStage' = [wStage EXCEPT ![w] = "opened"]
            /\ wOffset' = [wOffset EXCEPT ![w] = Len(log)]
            /\ UNCHANGED opRes
       ELSE Raise(w) /\ UNCHANGED wOffset
    /\ UNCHANGED <<log, clock, returned, written, tampered, wCall, wEvent>>
    /\ UNCHANGED notLedger

\* Line 79 and the end of the with block: the line reaches the file in one
\* write, or the write fails and leaves nothing or a fragment of the line.
WriterAppend(w, io) ==
    /\ wStage[w] = "opened"
    /\ IF io = "ok"
       THEN /\ wStage' = [wStage EXCEPT ![w] = "Appended"]
            /\ Appended(wOffset[w], wEvent[w])
       ELSE IF io = "fails"
       THEN Raise(w) /\ UNCHANGED <<log, written, returned>>
       ELSE /\ wStage' = [wStage EXCEPT ![w] = "failed"]
            /\ CutShort(wEvent[w], io)
    /\ UNCHANGED <<clock, tampered, wCall, wEvent, wOffset>>
    /\ UNCHANGED notLedger

\* The call has returned its audit_id or raised; the caller may call again.
WriterReturn(w) ==
    /\ wStage[w] \in {"Appended", "failed"}
    /\ wStage' = [wStage EXCEPT ![w] = "idle"]
    /\ UNCHANGED <<ledgerVars, wCall, wEvent, wOffset>>
    /\ UNCHANGED notLedger

NextWriters ==
    \E w \in Writers :
        \/ \E call \in StrKeyCalls, dt \in Ticks : WriterCreate(w, call, dt)
        \/ \E dumpOk \in BOOLEAN : WriterHash(w, dumpOk)
        \/ \E signOk \in BOOLEAN : WriterSign(w, signOk)
        \/ \E ioOk \in BOOLEAN : WriterOpen(w, ioOk)
        \/ \E io \in AppendOutcomes : WriterAppend(w, io)
        \/ WriterReturn(w)

SpecWriters == InitLedger /\ [][NextWriters]_vars

\* A stored line carries a signature and a signature_algorithm.
CarriesSignature(line) ==
    /\ IsEventObject(line)
    /\ Truthy(DictGet(line[2][2], K("signature"), None))
    /\ Truthy(DictGet(line[2][2], K("signature_algorithm"), None))

\* C7: a call of write_audit_event moves Created, Hashed, Signed, (file
\* opened,) Appended, one stage at a time and never backwards; a call that
\* raises before it writes, a failed signing among them, leaves the log as it
\* was; the log is written only by a call that has signed its event, so
\* every line of the log, and every JSON text a failed write left in it
\* without its line break, carries a signature and a signature_algorithm.
C7_SignedBeforeAppended ==
    [][/\ \A w \in Writers :
             wStage'[w] # wStage[w] =>
                 \/ /\ wStage'[w] = "failed"
                    /\ wStage[w] \in {"Created", "Hashed", "Signed"}
                    /\ log' = log
                 \/ /\ wStage'[w] = "failed"
                    /\ wStage[w] = "opened"
                    /\ log' = log \/ (\E how \in {"cut", "unended"} :
                                         log' = Append(log, FragmentOf(wEvent[w], how)))
                 \/ /\ wStage'[w] = "idle"
                    /\ wStage[w] \in {"Appended", "failed"}
                    /\ log' = log
                 \/ /\ wStage'[w] # "failed"
                    /\ StageRank[wStage'[w]] = StageRank[wStage[w]] + 1
       /\ log' # log =>
             \E w \in Writers :
                 /\ wStage[w] = "opened" /\ wStage'[w] \in {"Appended", "failed"}
                 /\ DictHas(wEvent[w], K("audit_id"))
                 /\ DictHas(wEvent[w], K("signature"))
       /\ \A i \in 1..Len(log') :
             log'[i] # <<"cut">> => CarriesSignature(<<"json", log'[i][2]>>)]_vars

\* One call has appended its line while another call failed at signing: its
\* event has an audit_id and no signature.
C7_AppendedAndSignFailed ==
    \E w, v \in Writers :
        /\ wStage[w] = "Appended"
        /\ Len(log) >= 1
        /\ wStage[v] = "failed"
        /\ DictHas(wEvent[v], K("audit_id"))
        /\ ~DictHas(wEvent[v], K("signature"))

\* C8: under every interleaving of the steps of concurrent calls, every call
\* that appended has one complete JSON line of its own in the file, in the
\* order the calls wrote: no write is lost and none shares its line with
\* another write (a call that raised may have left a last line cut short,
\* and only a last line).
C8_OneLinePerWrite ==
    /\ SelectSeq(FileLines(log), LAMBDA line : \E i \in 1..Len(written) : line = written[i])
          = written
    /\ \A i \in 1..(Len(FileLines(log)) - 1) : IsEventObject(FileLines(log)[i])
    /\ \A w \in Writers :
          wStage[w] = "Appended" =>
              \E i \in 1..Len(FileLines(log)) : FileLines(log)[i] = LineOf(wEvent[w])

-----------------------------------------------------------------------------
(* add_vectors and search step by step, two adders and a searcher at once *)

\* What the calls of the vector store leave alone.
notVS == <<ledgerVars, writerVars, queryVars, fnVars>>

\* The call of p raises.
VSRaise(p) == vpc' = [vpc EXCEPT ![p] = "failed"]

\* add_vectors, lines 112-124: the early returns, then _load_index.
AddCall(p, batch) ==
    /\ vpc[p] = "idle"
    /\ vCalls' = [vCalls EXCEPT ![p] = @ + 1]
    /\ vPre' = [vPre EXCEPT ![p] = <<idxFile, metaFile>>]
    /\ IF batch.vectors = <<>> \/ batch.metadata = <<>>
       THEN /\ vpc' = [vpc EXCEPT ![p] = "done"]
            /\ vloc' = [vloc EXCEPT ![p] = [NoLocals EXCEPT !.op = "add", !.batch = batch]]
       ELSE IF Len(batch.vectors) # Len(batch.metadata)
       THEN /\ VSRaise(p)
            /\ vloc' = [vloc EXCEPT ![p] = [NoLocals EXCEPT !.op = "add", !.batch = batch]]
       ELSE /\ vloc' = [vloc EXCEPT ![p] = [NoLocals EXCEPT !.op = "add", !.batch = batch,
                                                          !.index = LoadIndex(idxFile)]]
            /\ vpc' = [vpc EXCEPT ![p] = IF LoadIndex(idxFile).some
                                          THEN "load_metadata" ELSE "create_index"]
    /\ UNCHANGED <<idxFile, metaFile, tmpDir, db, vAdded, vReset, committed, vBase, notVS>>

\* What a write to a file can do: go through, fail before the file is
\* touched (it cannot be opened), or fail after the file was opened for
\* writing, which has emptied it.
WriteOutcomes == {"ok", "open_fails", "write_fails"}

\* create_index(tenant_id, dim) called by itself (admin.py, seed_data.py).
CreateCall(p) ==
    /\ vpc[p] = "idle"
    /\ vCalls' = [vCalls EXCEPT ![p] = @ + 1]
    /\ vPre' = [vPre EXCEPT ![p] = <<idxFile, metaFile>>]
    /\ vloc' = [vloc EXCEPT ![p] = [NoLocals EXCEPT !.op = "create"]]
    /\ vpc' = [vpc EXCEPT ![p] = "create_index"]
    /\ vReset' = TRUE
    /\ UNCHANGED <<idxFile, metaFile, tmpDir, db, vAdded, committed, vBase, notVS>>

\* create_index, lines 41-45: the empty index written over the index file.
AddCreateIndex(p, io) ==
    /\ vpc[p] = "create_index"
    /\ CASE io = "ok" ->
              /\ idxFile' = IndexFileOf(<<>>)
              /\ vpc' = [vpc EXCEPT ![p] = "create_metadata"]
         [] io = "open_fails" -> VSRaise(p) /\ UNCHANGED idxFile
         [] io = "write_fails" -> VSRaise(p) /\ idxFile' = CorruptIndex
    /\ UNCHANGED <<metaFile, tmpDir, db, vloc, vPre, vCalls, vAdded, vReset, committed,
                   vBase, notVS>>

\* create_index, lines 47-52: the empty map written over the metadata file
\* (open(metadata_path, 'wb') empties the file before pickle.dump writes);
\* create_index called by itself returns here.
AddCreateMetadata(p, io) ==
    /\ vpc[p] = "create_metadata"
    /\ CASE io = "ok" ->
              /\ metaFile' = MetaFileOf(EmptyMap)
              /\ vpc' = [vpc EXCEPT ![p] = IF vloc[p].op = "create" THEN "done"
                                            ELSE "reload_index"]
              /\ committed' = IF vloc[p].op = "create"
                              THEN committed \cup {<<<<>>, EmptyMap>>}
                              ELSE committed
         [] io = "open_fails" -> VSRaise(p) /\ UNCHANGED <<metaFile, committed>>
         [] io = "write_fails" ->
              VSRaise(p) /\ metaFile' = CorruptMeta /\ UNCHANGED committed
    /\ UNCHANGED <<idxFile, tmpDir, db, vloc, vPre, vCalls, vAdded, vReset, vBase, notVS>>

\* delete_index(tenant_id), lines 209-213: the call begins.
DeleteCall(p) ==
    /\ vpc[p] = "idle"
    /\ vCalls' = [vCalls EXCEPT ![p] = @ + 1]
    /\ vPre' = [vPre EXCEPT ![p] = <<idxFile, metaFile>>]
    /\ vloc' = [vloc EXCEPT ![p] = [NoLocals EXCEPT !.op = "delete"]]
    /\ vpc' = [vpc EXCEPT ![p] = "delete_index"]
    /\ vReset' = TRUE
    /\ UNCHANGED <<idxFile, metaFile, tmpDir, db, vAdded, committed, vBase, notVS>>

\* delete_index, lines 213-219 for the index file: unlinked when it exists;
\* an unlink that fails is logged and the loop goes on.
DeleteIndexFile(p, ioOk) ==
    /\ vpc[p] = "delete_index"
    /\ idxFile' = IF ioOk THEN AbsentIndex ELSE idxFile
    /\ vpc' = [vpc EXCEPT ![p] = "delete_metadata"]
    /\ UNCHANGED <<metaFile, tmpDir, db, vloc, vPre, vCalls, vAdded, vReset, committed,
                   vBase, notVS>>

\* delete_index, lines 213-221 for the metadata file; then it returns. The
\* rows of the table stay.
DeleteMetaFile(p, ioOk) ==
    /\ vpc[p] = "delete_metadata"
    /\ metaFile' = IF ioOk THEN AbsentMeta ELSE metaFile
    /\ vpc' = [vpc EXCEPT ![p] = "done"]
    /\ UNCHANGED <<idxFile, tmpDir, db, vloc, vPre, vCalls, vAdded, vReset, committed,
                   vBase, notVS>>

\* add_vectors, line 124: _load_index again.
AddReloadIndex(p) ==
    /\ vpc[p] = "reload_index"
    /\ vloc' = [vloc EXCEPT ![p].index = LoadIndex(idxFile)]
    /\ vpc' = [vpc EXCEPT ![p] = "load_metadata"]
    /\ UNCHANGED <<idxFile, metaFile, tmpDir, db, vPre, vCalls, vAdded, vReset, committed,
                   vBase, notVS>>

\* add_vectors, lines 126-133: _load_metadata, then start_idx = index.ntotal
\* (AttributeError when the index is None).
AddLoadMetadata(p) ==
    /\ vpc[p] = "load_metadata"
    /\ IF vloc[p].index.some
       THEN /\ vloc' = [vloc EXCEPT ![p].map = LoadMetadata(metaFile),
                                    ![p].start = Len(vloc[p].index.vecs),
                                    ![p].i = 0]
            /\ vpc' = [vpc EXCEPT ![p] = "rows"]
       ELSE VSRaise(p) /\ UNCHANGED vloc
    /\ UNCHANGED <<idxFile, metaFile, tmpDir, db, vPre, vCalls, vAdded, vReset, committed,
                   vBase, notVS>>

\* add_vectors, lines 135-146: one pass of the loop, for record i (from 0):
\* the map entry is set, then the row is added and committed; commitOk: the
\* database takes the commit. After the last record index.add (line 149).
AddRow(p, commitOk) ==
    /\ vpc[p] = "rows"
    /\ LET loc == vloc[p]
           i == loc.i
           ids == VectorIds(loc.batch.metadata)
           map == MetaAfter(loc.map, loc.start, i, ids[i + 1])
       IN  IF commitOk /\ ~Clashes(db, ids[i + 1])
           THEN /\ db' = db \cup {RowOf(ids[i + 1], loc.batch.metadata[i + 1],
                                         loc.start, i)}
                /\ IF i + 1 < Len(ids)
                   THEN /\ vloc' = [vloc EXCEPT ![p].map = map, ![p].i = i + 1]
                        /\ UNCHANGED vpc
                   ELSE /\ vloc' = [vloc EXCEPT
                                      ![p].map = map,
                                      ![p].i = i + 1,
                                      ![p].ids = ids,
                                      ![p].index = [some |-> TRUE,
                                                    vecs |-> loc.index.vecs
                                                               \o loc.batch.vectors]]
                        /\ vpc' = [vpc EXCEPT ![p] = "tmp_index"]
           ELSE /\ vloc' = [vloc EXCEPT ![p].map = map]
                /\ VSRaise(p)
                /\ UNCHANGED db
    /\ UNCHANGED <<idxFile, metaFile, tmpDir, vPre, vCalls, vAdded, vReset, committed,
                   vBase, notVS>>

\* The temporary file NamedTemporaryFile makes for the call p is in: a name
\* of its own for every call.
Tmp(p, suffix) == <<p, vCalls[p], suffix>>

\* What writing a temporary file can do: go through, fail before the file
\* exists (NamedTemporaryFile raises), or fail after it was created, which
\* leaves it where it is (delete=False).
TmpOutcomes == {"ok", "create_fails", "write_fails"}

\* _save_index, lines 89-91: the temporary index file is created, then
\* written.
AddTmpIndex(p, io) ==
    /\ vpc[p] = "tmp_index"
    /\ tmpDir' = IF io = "create_fails" THEN tmpDir ELSE tmpDir \cup {Tmp(p, ".faiss")}
    /\ IF io = "ok" THEN vpc' = [vpc EXCEPT ![p] = "tmp_metadata"] ELSE VSRaise(p)
    /\ UNCHANGED <<idxFile, metaFile, db, vloc, vPre, vCalls, vAdded, vReset, committed,
                   vBase, notVS>>

\* _save_index, lines 93-95: the temporary metadata file is created, then
\* written.
AddTmpMetadata(p, io) ==
    /\ vpc[p] = "tmp_metadata"
    /\ tmpDir' = IF io = "create_fails" THEN tmpDir ELSE tmpDir \cup {Tmp(p, ".pkl")}
    /\ IF io = "ok" THEN vpc' = [vpc EXCEPT ![p] = "move_index"] ELSE VSRaise(p)
    /\ UNCHANGED <<idxFile, metaFile, db, vloc, vPre, vCalls, vAdded, vReset, committed,
                   vBase, notVS>>

\* What the handler's os.unlink calls can do: both go through ("none"), or
\* the unlink of the named file raises.
UnlinkOutcomes == {"none", ".faiss", ".pkl"}

\* _save_index, lines 101-106: the temporary index file, then the temporary
\* metadata file, is unlinked when it exists; an unlink that raises ends the
\* handler with the file and those after it left. stuck names the file whose
\* unlink raises (none raises for a file that does not exist).
Cleanup(p, stuck) ==
    tmpDir' = IF stuck = ".faiss" /\ Tmp(p, ".faiss") \in tmpDir
              THEN tmpDir
              ELSE IF stuck = ".pkl" /\ Tmp(p, ".pkl") \in tmpDir
              THEN tmpDir \ {Tmp(p, ".faiss")}
              ELSE tmpDir \ {Tmp(p, ".faiss"), Tmp(p, ".pkl")}

\* shutil.move(tmp, path): os.rename replaces the file whole ("renamed");
\* when rename raises OSError (the temporary directory is on another file
\* system) the file is copied: open(path, 'wb') empties the destination
\* ("copying"; the bytes follow in a later step), or nothing could be opened
\* and the move raises with the file as it was ("fails").
MoveOutcomes == {"renamed", "copying", "fails"}

\* _save_index, line 99: the temporary index file moved over the index file.
AddMoveIndex(p, io, stuck) ==
    /\ vpc[p] = "move_index"
    /\ CASE io = "renamed" ->
              /\ idxFile' = IndexFileOf(vloc[p].index.vecs)
              /\ tmpDir' = tmpDir \ {Tmp(p, ".faiss")}
              /\ vpc' = [vpc EXCEPT ![p] = "move_metadata"]
         [] io = "copying" ->
              /\ idxFile' = CorruptIndex
              /\ vpc' = [vpc EXCEPT ![p] = "copy_index"]
              /\ UNCHANGED tmpDir
         [] OTHER -> Cleanup(p, stuck) /\ VSRaise(p) /\ UNCHANGED idxFile
    /\ UNCHANGED <<metaFile, db, vloc, vPre, vCalls, vAdded, vReset, committed, vBase, notVS>>

\* What the copy of shutil.move can do once the destination is open: the
\* bytes are written and the temporary file unlinked ("ok"); the write fails
\* partway (the disk is full) and the destination stays cut short
\* ("write_fails"); or the bytes are written and os.unlink of the temporary
\* file raises ("unlink_fails"): the move raises with the destination whole.
CopyOutcomes == {"ok", "write_fails", "unlink_fails"}

\* The copy of the index file; when it raises, the handler of _save_index
\* runs.
AddCopyIndex(p, io, stuck) ==
    /\ vpc[p] = "copy_index"
    /\ CASE io = "ok" ->
              /\ idxFile' = IndexFileOf(vloc[p].index.vecs)
              /\ tmpDir' = tmpDir \ {Tmp(p, ".faiss")}
              /\ vpc' = [vpc EXCEPT ![p] = "move_metadata"]
         [] io = "write_fails" -> Cleanup(p, stuck) /\ VSRaise(p) /\ UNCHANGED idxFile
         [] OTHER ->
              /\ idxFile' = IndexFileOf(vloc[p].index.vecs)
              /\ Cleanup(p, stuck) /\ VSRaise(p)
    /\ UNCHANGED <<metaFile, db, vloc, vPre, vCalls, vAdded, vReset, committed, vBase, notVS>>

\* The metadata file is in place: add_vectors returns the vector ids.
Saved(p) ==
    /\ metaFile' = MetaFileOf(vloc[p].map)
    /\ tmpDir' = tmpDir \ {Tmp(p, ".pkl")}
    /\ vpc' = [vpc EXCEPT ![p] = "done"]
    /\ vloc' = [vloc EXCEPT ![p].result = vloc[p].ids]
    /\ vAdded' = vAdded + Len(vloc[p].batch.vectors)
    /\ committed' = committed \cup {<<vloc[p].index.vecs, vloc[p].map>>}

\* _save_index, line 100: the temporary metadata file moved over the metadata
\* file; then add_vectors returns the vector ids.
AddMoveMetadata(p, io, stuck) ==
    /\ vpc[p] = "move_metadata"
    /\ CASE io = "renamed" -> Saved(p)
         [] io = "copying" ->
              /\ metaFile' = CorruptMeta
              /\ vpc' = [vpc EXCEPT ![p] = "copy_metadata"]
              /\ UNCHANGED <<tmpDir, vloc, vAdded, committed>>
         [] OTHER ->
              /\ Cleanup(p, stuck) /\ VSRaise(p)
              /\ UNCHANGED <<metaFile, vloc, vAdded, committed>>
    /\ UNCHANGED <<idxFile, db, vPre, vCalls, vReset, vBase, notVS>>

\* The copy of the metadata file, as that of the index file: when the
\* unlink of the temporary file raises, the new map is in place and
\* add_vectors raises.
AddCopyMetadata(p, io, stuck) ==
    /\ vpc[p] = "copy_metadata"
    /\ CASE io = "ok" -> Saved(p)
         [] io = "write_fails" ->
              /\ Cleanup(p, stuck) /\ VSRaise(p)
              /\ UNCHANGED <<metaFile, vloc, vAdded, committed>>
         [] OTHER ->
              /\ metaFile' = MetaFileOf(vloc[p].map)
              /\ Cleanup(p, stuck) /\ VSRaise(p)
              /\ UNCHANGED <<vloc, vAdded, committed>>
    /\ UNCHANGED <<idxFile, db, vPre, vCalls, vReset, vBase, notVS>>

\* search, lines 161-163: _load_index; [] when there is none or it is empty.
SearchCall(p, q, top_k) ==
    /\ vpc[p] = "idle"
    /\ vPre' = [vPre EXCEPT ![p] = <<idxFile, metaFile>>]
    /\ vloc' = [vloc EXCEPT ![p] = [NoLocals EXCEPT !.op = "search", !.top_k = top_k,
                                                     !.query = q,
                                                     !.index = LoadIndex(idxFile)]]
    /\ vpc' = [vpc EXCEPT ![p] = IF LoadIndex(idxFile).some /\ idxFile.vecs # <<>>
                                  THEN "search_metadata" ELSE "done"]
    /\ UNCHANGED <<idxFile, metaFile, tmpDir, db, vCalls, vAdded, vReset, committed, vBase,
                   notVS>>

\* search, lines 165-187: _load_metadata, the search and the results.
SearchMetadata(p) ==
    /\ vpc[p] = "search_metadata"
    /\ vloc' = [vloc EXCEPT
                  ![p].map = LoadMetadata(metaFile),
                  ![p].sawMap = TRUE,
                  ![p].result = SearchResults(vloc[p].index.vecs,
                                              LoadMetadata(metaFile), vloc[p].query,
                                              vloc[p].top_k)]
    /\ vpc' = [vpc EXCEPT ![p] = "done"]
    /\ UNCHANGED <<idxFile, metaFile, tmpDir, db, vPre, vCalls, vAdded, vReset, committed,
                   vBase, notVS>>

\* The call has returned or raised and its local variables are gone; the
\* process may call again.
VSReturn(p) ==
    /\ vpc[p] \in {"done", "failed"}
    /\ vpc' = [vpc EXCEPT ![p] = "idle"]
    /\ vloc' = [vloc EXCEPT ![p] = NoLocals]
    /\ vPre' = [vPre EXCEPT ![p] = vBase]
    /\ UNCHANGED <<idxFile, metaFile, tmpDir, db, vCalls, vAdded, vReset, committed,
                   vBase, notVS>>

\* SpecVS: every process makes one call, the calls interleaved step by step.
NextVS ==
    \/ \E p \in Adders, batch \in Batches : AddCall(p, batch)
    \/ \E p \in Adders : CreateCall(p)
    \/ \E p \in Adders : DeleteCall(p)
    \/ \E p \in Adders, io \in WriteOutcomes : AddCreateIndex(p, io)
    \/ \E p \in Adders, io \in WriteOutcomes : AddCreateMetadata(p, io)
    \/ \E p \in Adders, ioOk \in BOOLEAN : DeleteIndexFile(p, ioOk)
    \/ \E p \in Adders, ioOk \in BOOLEAN : DeleteMetaFile(p, ioOk)
    \/ \E p \in Adders : AddReloadIndex(p)
    \/ \E p \in Adders : AddLoadMetadata(p)
    \/ \E p \in Adders, commitOk \in BOOLEAN : AddRow(p, commitOk)
    \/ \E p \in Adders, io \in TmpOutcomes : AddTmpIndex(p, io)
    \/ \E p \in Adders, io \in TmpOutcomes : AddTmpMetadata(p, io)
    \/ \E p \in Adders, io \in MoveOutcomes, stuck \in UnlinkOutcomes :
          AddMoveIndex(p, io, stuck)
    \/ \E p \in Adders, io \in CopyOutcomes, stuck \in UnlinkOutcomes :
          AddCopyIndex(p, io, stuck)
    \/ \E p \in Adders, io \in MoveOutcomes, stuck \in UnlinkOutcomes :
          AddMoveMetadata(p, io, stuck)
    \/ \E p \in Adders, io \in CopyOutcomes, stuck \in UnlinkOutcomes :
          AddCopyMetadata(p, io, stuck)
    \/ \E p \in Searchers, q \in VSQueries, top_k \in TopKs : SearchCall(p, q, top_k)
    \/ \E p \in Searchers : SearchMetadata(p)

InitVS == LedgerIdle /\ QueryIdle /\ FnIdle /\ \E files \in StartFiles : InitVSWith(files)

SpecVS == InitVS /\ [][NextVS]_vars

\* add_vectors and search are the only calls made so far: no create_index
\* and no delete_index call by itself.
OnlyAddsAndSearches == ~vReset

\* Both files could be read when the model started.
StartReadable == vBase[1].st # "corrupt" /\ vBase[2].st # "corrupt"

\* No add_vectors call is under way.
AddersQuiet == \A p \in Adders : vpc[p] \in {"idle", "done", "failed"}

\* p is the only process that has called add_vectors.
OnlyAdder(p) == \A q \in Adders \ {p} : vCalls[q] = 0

\* C1: when the add_vectors calls of two callers have run, in any
\* interleaving, the index file holds at least the vectors it had plus those
\* of every batch whose call returned, and at no time does the metadata file
\* map a position at or beyond the number of vectors in the index file.
C1_ConcurrentAddsKeepAll ==
    (StartReadable /\ OnlyAddsAndSearches) =>
        /\ AddersQuiet => Len(idxFile.vecs) >= Len(vBase[1].vecs) + vAdded
        /\ \A pos \in DOMAIN metaFile.map : pos < Len(idxFile.vecs)

\* C2: when add_vectors has failed, the index file and the metadata file
\* both hold what they held when the call began (here: a call that began
\* with both files readable and that no other writer ran beside).
C2_FailedAddLeavesFiles ==
    \A p \in Adders :
        ( /\ vpc[p] = "failed"
          /\ OnlyAddsAndSearches
          /\ OnlyAdder(p)
          /\ vPre[p][1].st = "ok" /\ vPre[p][2].st = "ok" ) =>
              idxFile = vPre[p][1] /\ metaFile = vPre[p][2]

\* C3: a search that ran beside one add_vectors call (one that did not fail)
\* has loaded an index and a map that belong to the same committed version.
C3_SearchSeesOneVersion ==
    \A s \in Searchers :
        ( /\ StartReadable
          /\ OnlyAddsAndSearches
          /\ vpc[s] = "done" /\ vloc[s].sawMap
          /\ \E p \in Adders : OnlyAdder(p) /\ vpc[p] # "failed" ) =>
              <<vloc[s].index.vecs, vloc[s].map>> \in committed

\* C4: add_vectors of a batch, called when the index file or the metadata
\* file exists and cannot be read, fails and leaves both files as they were.
C4_UnreadableFilesFail ==
    \A p \in Adders :
        ( /\ vPre[p][1].st = "corrupt" \/ vPre[p][2].st = "corrupt"
          /\ OnlyAddsAndSearches
          /\ OnlyAdder(p)
          /\ vloc[p].batch.vectors # <<>>
          /\ Len(vloc[p].batch.vectors) = Len(vloc[p].batch.metadata)
          /\ vpc[p] \in {"done", "failed"} ) =>
              /\ vpc[p] = "failed"
              /\ idxFile = vPre[p][1] /\ metaFile = vPre[p][2]

-----------------------------------------------------------------------------
(* The query handlers, one request at a time *)

\* What the query handlers leave alone.
notQuery == <<ledgerVars, writerVars, vsVars, fnVars>>

\* POST /v1/queries/search
QuerySearch(req) ==
    /\ request = NoRequest
    /\ request' = req
    /\ response' = SearchText(req).reply
    /\ audited' = SearchText(req).audit
    /\ UNCHANGED notQuery

\* POST /v1/queries/summarize
QuerySummarize(req) ==
    /\ request = NoRequest
    /\ request' = req
    /\ response' = SummarizeDoc(req).reply
    /\ audited' = SummarizeDoc(req).audit
    /\ UNCHANGED notQuery

\* The response has been sent; the next request can come.
QueryDone ==
    /\ request # NoRequest
    /\ request' = NoRequest
    /\ response' = Reply(0)
    /\ audited' = <<>>
    /\ UNCHANGED notQuery

NextQuery ==
    \/ \E req \in SearchRequests : QuerySearch(req)
    \/ \E req \in SummarizeRequests : QuerySummarize(req)
    \/ QueryDone

InitQuery == LedgerIdle /\ VSIdle /\ QueryIdle /\ FnIdle

SpecQuery == InitQuery /\ [][NextQuery]_vars

\* The text with each range of spans replaced by the mask label of its type
\* and every other character kept, read from the left.
RECURSIVE MaskedFrom(_, _, _)
MaskedFrom(text, spans, pos) ==
    IF pos >= Len(text) THEN <<>>
    ELSE IF \E k \in 1..Len(spans) : spans[k].start = pos
         THEN LET k == CHOOSE j \in 1..Len(spans) : spans[j].start = pos
              IN  MaskText(spans[k].type) \o MaskedFrom(text, spans, spans[k].end)
    ELSE <<text[pos + 1]>> \o MaskedFrom(text, spans, pos + 1)

\* The text of item i of the request, and the spans detect_pii reports for it.
TextOfItem(i) == IF request.items[i].hasText THEN request.items[i].text ELSE <<>>

SpansOfItem(i) ==
    IF request.items[i].hasText THEN DetectPii(request.items[i].found) ELSE <<>>

\* The letters of item i that lie in a range detect_pii reports.
DetectedLetters(i) ==
    {TextOfItem(i)[pos + 1] :
        pos \in {q \in 0..(Len(TextOfItem(i)) - 1) :
                    \E k \in 1..Len(SpansOfItem(i)) :
                        SpansOfItem(i)[k].start <= q /\ q < SpansOfItem(i)[k].end}}
    \cap {"a", "b", "c"}

CharsOf(text) == {text[i] : i \in 1..Len(text)}

\* C10: for a caller without pii:view, every chunk text in a 200 response of
\* search_text is the stored text with each range detect_pii reports replaced
\* by its mask label, the summary and the highlights summarize_doc builds
\* for its response are made of such texts (and nothing else of the chunks
\* is in the response), and no letter of a reported range is in either.
C10_DetectedRangesMasked ==
    LET masked == [i \in 1..Len(request.items) |->
                      MaskedFrom(TextOfItem(i), SpansOfItem(i), 0)]
    IN  /\ (request.op = "search" /\ response.status = 200 /\ ~request.canViewPii) =>
              /\ Len(response.items) = Len(request.items)
              /\ \A i \in 1..Len(request.items) :
                    /\ response.items[i].text = masked[i]
                    /\ CharsOf(response.items[i].text) \cap DetectedLetters(i) = {}
        /\ ( /\ request.op = "summarize" /\ ~request.canViewPii
              /\ request.gate = "ok" /\ request.items # <<>> ) =>
              LET built == SummaryBuilt(request)
              IN  /\ built.summary = SummaryOf(SentencesOf(masked))
                  /\ built.highlights = HighlightsOf(SentencesOf(masked), request.query)
                  /\ response.summary \in {<<>>, built.summary}
                  /\ response.highlights \in {<<>>, built.highlights}
                  /\ \A i \in 1..Len(request.items) :
                        /\ CharsOf(built.summary) \cap DetectedLetters(i) = {}
                        /\ \A h \in 1..Len(built.highlights) :
                              CharsOf(built.highlights[h]) \cap DetectedLetters(i) = {}

\* A caller without pii:view got search results for a text in which
\* detect_pii reports two ranges, and the text returned is longer than the
\* stored one (both labels are in it).
C10_TwoRangesMasked ==
    /\ request.op = "search"
    /\ response.status = 200
    /\ ~request.canViewPii
    /\ \E i \in 1..Len(request.items) :
          /\ Len(SpansOfItem(i)) = 2
          /\ Len(response.items[i].text) > Len(TextOfItem(i))

\* C11: a 200 response of search_text or summarize_doc is given only after
\* write_audit_event has taken the audit event of that retrieval and
\* returned; when the audit write raises, the response is an error and holds
\* no results, no summary and no highlights.
C11_AuditBeforeResponse ==
    /\ response.status = 200 =>
          /\ request.auditOk
          /\ Len(audited) = 1
          /\ audited[1].action = request.op
    /\ (request.op \in {"search", "summarize"} /\ ~request.auditOk) =>
          /\ response.status # 200
          /\ response.items = <<>>
          /\ response.summary = <<>>
          /\ response.highlights = <<>>
          /\ audited = <<>>

\* A request with results to give passed every check and the loop over the
\* results, its audit write raised, and it was answered 500.
C11_AuditFailedRequestFailed ==
    /\ request.op \in {"search", "summarize"}
    /\ request.gate = "ok"
    /\ request.items # <<>>
    /\ ~SearchRaises(request)
    /\ ~request.auditOk
    /\ response.status = 500

-----------------------------------------------------------------------------
(* CryptoSignService called on its own: sign_payload, then verify_signature *)

\* What the functions called on their own leave alone.
notFn == <<ledgerVars, writerVars, vsVars, queryVars>>

\* The call returned; the next call can be made.
FnDone ==
    /\ fnCall # NoFn
    /\ fnCall' = NoFn
    /\ fnResult' = <<>>
    /\ UNCHANGED notFn

\* Payloads: dicts (two of them the same items in another insertion order,
\* one with int keys), strs (one the JSON text of one of the dicts), and
\* bytes (one the UTF-8 bytes of a str).
SignPayloads ==
    { Obj(<< <<K("q"), PyStr("x")>>, <<K("n"), PyInt(1)>> >>),
      Obj(<< <<K("n"), PyInt(1)>>, <<K("q"), PyStr("x")>> >>),
      Obj(<< <<K("q"), PyStr("y")>> >>),
      Obj(<< <<PyInt(2), PyStr("x")>>, <<PyInt(10), PyStr("y")>> >>),
      PyStr("x"), PyStr("{\"q\": \"y\"}"), <<"bytes", "x">>, <<"bytes", "y">> }

\* The public keys a verifying service can hold: of the signer's pair, or of
\* another pair.
PublicKeys == {SigningKey, "other-key"}

\* What can be done to a signature text before it is verified.
\*   same:      nothing
\*   respaced:  a character outside the base64 alphabet (a space, a line
\*              break) is put into the text, or the unused low bits of its
\*              last character are changed: it decodes to the same bytes
\*   bytes:     a character is changed so that a decoded byte changes
\*   malformed: a text that is not base64
\*   none:      None in place of the text
Alterations == {"same", "respaced", "bytes", "malformed", "none"}

AlteredSignature(signature, how) ==
    CASE how = "same" -> signature
      [] how = "respaced" -> Append(signature, " ")
      [] how = "bytes" -> <<"b64", signature[2], <<"changed", signature[3]>>>>
      [] how = "malformed" -> PyStr("%%%")
      [] how = "none" -> None

\* sign_payload(signed), the signature altered, then
\* verify_signature(payload, signature) by a service holding publicKey.
SignThenVerify(publicKey, signed, how, payload) ==
    /\ fnCall = NoFn
    /\ fnCall' = [fn |-> "verify_signature", publicKey |-> publicKey,
                  signed |-> signed, how |-> how, payload |-> payload]
    /\ fnResult' = VerifyWith(publicKey, payload,
                              AlteredSignature(SignPayload(signed), how))
    /\ UNCHANGED notFn

NextSign ==
    \/ \E publicKey \in PublicKeys, signed \in SignPayloads, how \in Alterations,
          payload \in SignPayloads :
            SignThenVerify(publicKey, signed, how, payload)
    \/ FnDone

InitFn == LedgerIdle /\ VSIdle /\ QueryIdle /\ FnIdle

SpecSign == InitFn /\ [][NextSign]_vars

\* C12: verify_signature(payload, signature) is True when signature is
\* sign_payload of a payload with the same canonical bytes, unaltered, and
\* the key is of the signer's pair; it is False (it returns, it never raises)
\* when the canonical bytes differ, when the signature was altered or is
\* malformed, or when the key is of another pair.
C12_VerifyIffSignedUnaltered ==
    fnCall.fn = "verify_signature" =>
        /\ fnResult \in BOOLEAN
        /\ fnResult <=> /\ fnCall.publicKey = SigningKey
                        /\ fnCall.how = "same"
                        /\ PayloadBytes(fnCall.payload) = PayloadBytes(fnCall.signed)

-----------------------------------------------------------------------------
(* chunking.py: TextChunker.chunk_text, one loop iteration per step *)

\* The number of characters before the window's end in which a sentence
\* ending is looked for.
LookBack == 100

Max(a, b) == IF a > b THEN a ELSE b

\* s.rfind(sub): the greatest index at which sub occurs in s, -1 if none.
RFind(s, sub) ==
    LET at == {i \in 0..(Len(s) - Len(sub)) : Slice(s, i, i + Len(sub)) = sub}
    IN  IF at = {} THEN -1 ELSE CHOOSE i \in at : \A j \in at : j <= i

\* Lines 42-48: the greatest rfind position of '.', '!', '?' or '\n\n' in
\* last_part that is beyond len(last_part) // 2; -1 if there is none.
BestBreak(last_part) ==
    LET found == {RFind(last_part, ending) :
                     ending \in {<<".">>, <<"!">>, <<"?">>, <<"\n", "\n">>}}
        good == {pos \in found : pos > Len(last_part) \div 2}
    IN  IF good = {} THEN -1 ELSE CHOOSE pos \in good : \A q \in good : q <= pos

\* The window's end taken as start + chunk_size, whatever the text's length.
WindowEndUnclamped(text, chunk_size, start) == start + chunk_size

\* Lines 36-51: the end of the window that starts at start.
WindowEnd(text, chunk_size, start) ==
    LET end == IF start + chunk_size < Len(text) THEN start + chunk_size ELSE Len(text)
        from == Max(start, end - LookBack)
        best_break == BestBreak(Slice(text, from, end))
    IN  IF end < Len(text) /\ best_break # -1 THEN from + best_break + 1 ELSE end

\* The next window taken one character after this one's start.
NextStartByOne(start, end, overlap) == start + 1

\* The next window taken overlap characters after this one's end.
NextStartOverlapAdded(start, end, overlap) == Max(start + 1, end + overlap)

\* Lines 77-81: the start of the next window.
NextStart(start, end, overlap) ==
    IF Max(start + 1, end - overlap) >= end THEN end
    ELSE Max(start + 1, end - overlap)

\* Lines 58-69: the chunk dict (document_id is None, written 'doc' in the id).
ChunkDict(start, end, chunk_text, chunk_index) ==
    [chunk_id |-> <<"hex", <<"doc", start, end, chunk_text>>>>,
     text |-> chunk_text, start |-> start, end |-> end,
     length |-> Len(chunk_text), index |-> chunk_index]

IsBlankText(text) == text = <<>> \/ Strip(text) = <<>>

\* Texts: every text of at most MaxText characters over a letter, a sentence
\* ending and a line break.
RECURSIVE TextsUpTo(_)
TextsUpTo(n) ==
    IF n = 0 THEN {<<>>}
    ELSE TextsUpTo(n - 1) \cup
         {Append(t, c) : t \in {u \in TextsUpTo(n - 1) : Len(u) = n - 1},
                         c \in {"a", ".", "\n"}}

ChunkCallOf(text, chunk_size, overlap) ==
    [fn |-> "chunk_text", text |-> text, chunk_size |-> chunk_size,
     overlap |-> overlap]

\* 2500 characters without a sentence ending, or with one '.' at index dotAt
\* (-1: none), chunked with the default configuration.
DefaultCall(dotAt) ==
    ChunkCallOf([i \in 1..2500 |-> IF i = dotAt + 1 THEN "." ELSE "a"], 1000, 200)

\* The calls made: every short text with every small configuration; texts in
\* which a window is cut at a sentence ending before its end; the long text.
ChunkCalls ==
    {ChunkCallOf(text, chunk_size, overlap) :
        text \in TextsUpTo(MaxText), chunk_size \in 0..MaxChunkSize,
        overlap \in 0..(MaxChunkSize + 1)}
    \cup
    {ChunkCallOf(text, 5, overlap) :
        text \in { <<"a", "a", "a", ".", "a", "a", "a">>,
                   <<"a", "a", "a", "\n", "\n", "a", "a">>,
                   <<"a", ".", "a", ".", "a", "a", "a">> },
        overlap \in {0, 2}}
    \cup
    {DefaultCall(dotAt) : dotAt \in {-1, 950, 960}}

\* chunk_text is called: lines 26-32.
ChunkCall(call) ==
    /\ fnCall = NoFn
    /\ fnCall' = call
    /\ fnResult' = [pc |-> IF IsBlankText(call.text) THEN "returned" ELSE "loop",
                    start |-> 0, iter |-> 0, chunks |-> <<>>]
    /\ UNCHANGED notFn

\* One iteration of the while loop, lines 34-81 (start < len(text) holds
\* whenever the loop is entered). A run in which start moves forward makes
\* at most len(text) iterations; no more of them are followed.
ChunkStep ==
    /\ fnCall.fn = "chunk_text"
    /\ fnResult.pc = "loop"
    /\ fnResult.iter <= Len(fnCall.text)
    /\ LET start == fnResult.start
           end == WindowEnd(fnCall.text, fnCall.chunk_size, start)
           chunk_text == Strip(Slice(fnCall.text, start, end))
           chunks == IF chunk_text # <<>>
                     THEN Append(fnResult.chunks,
                                 ChunkDict(start, end, chunk_text, Len(fnResult.chunks)))
                     ELSE fnResult.chunks
       IN  fnResult' =
              IF end >= Len(fnCall.text)
              THEN [pc |-> "returned", start |-> start, iter |-> fnResult.iter + 1,
                    chunks |-> chunks]
              ELSE [pc |-> "loop", start |-> NextStart(start, end, fnCall.overlap),
                    iter |-> fnResult.iter + 1, chunks |-> chunks]
    /\ UNCHANGED <<fnCall, notFn>>

\* The caller has the list; the next call can be made.
ChunkReturn ==
    /\ fnCall.fn = "chunk_text"
    /\ fnResult.pc = "returned"
    /\ FnDone

NextChunk ==
    \/ \E call \in ChunkCalls : ChunkCall(call)
    \/ ChunkStep
    \/ ChunkReturn

SpecChunk == InitFn /\ [][NextChunk]_vars

\* C13: for every text, chunk_size and overlap, every iteration of the loop
\* that does not leave it moves start strictly forward.
C13_StartMovesForward ==
    [][(fnCall.fn = "chunk_text" /\ fnResult.pc = "loop" /\ fnResult'.pc = "loop")
          => fnResult'.start > fnResult.start]_vars

\* Every character of text[a:b] is whitespace.
AllWhitespace(text, a, b) == \A i \in (a + 1)..b : text[i] \in Whitespace

\* chunk is text[start:end] with the whitespace at its two ends taken off:
\* it is a run of the window that begins and ends with a character that is
\* not whitespace, and what the window holds around it is whitespace.
IsTrimmedWindow(chunk, text) ==
    \E a \in chunk.start..(chunk.end - 1) :
        LET b == a + Len(chunk.text)
        IN  /\ b <= chunk.end
            /\ chunk.text = Slice(text, a, b)
            /\ chunk.text[1] \notin Whitespace
            /\ chunk.text[Len(chunk.text)] \notin Whitespace
            /\ AllWhitespace(text, chunk.start, a)
            /\ AllWhitespace(text, b, chunk.end)

\* C14: every chunk chunk_text has appended has 0 <= start < end <= len(text)
\* and end - start <= chunk_size, and its text is not empty and is
\* text[start:end] trimmed; a text that is empty or all whitespace gives no
\* chunks.
C14_ChunksWithinText ==
    fnCall.fn = "chunk_text" =>
        /\ \A i \in 1..Len(fnResult.chunks) :
              LET chunk == fnResult.chunks[i]
              IN  /\ 0 <= chunk.start
                  /\ chunk.start < chunk.end
                  /\ chunk.end <= Len(fnCall.text)
                  /\ chunk.end - chunk.start <= fnCall.chunk_size
                  /\ chunk.text # <<>>
                  /\ IsTrimmedWindow(chunk, fnCall.text)
        /\ AllWhitespace(fnCall.text, 0, Len(fnCall.text)) =>
              (fnResult.pc = "returned" /\ fnResult.chunks = <<>>)

\* chunk_text has returned two chunks or more, one of them with whitespace
\* trimmed off its window and one whose window was cut at a sentence ending
\* before start + chunk_size.
C14_TrimmedAndCutChunks ==
    /\ fnCall.fn = "chunk_text"
    /\ fnResult.pc = "returned"
    /\ Len(fnResult.chunks) >= 2
    /\ \E i \in 1..Len(fnResult.chunks) :
          Len(fnResult.chunks[i].text) < fnResult.chunks[i].end - fnResult.chunks[i].start
    /\ \E i \in 1..Len(fnResult.chunks) :
          /\ fnResult.chunks[i].end < Len(fnCall.text)
          /\ fnResult.chunks[i].end < fnResult.chunks[i].start + fnCall.chunk_size

\* C15: the chunks are in strictly increasing start order, and each chunk
\* starts at or after the end of the chunk before it less overlap, so the two
\* share at most overlap characters; 2500 characters without a sentence
\* ending, chunk_size 1000 and overlap 200, give the windows [0,1000),
\* [800,1800), [1600,2500).
C15_OrderedBoundedOverlap ==
    fnCall.fn = "chunk_text" =>
        /\ \A i \in 1..(Len(fnResult.chunks) - 1) :
              /\ fnResult.chunks[i].start < fnResult.chunks[i + 1].start
              /\ fnResult.chunks[i + 1].start >= fnResult.chunks[i].end - fnCall.overlap
              /\ fnResult.chunks[i].end - fnResult.chunks[i + 1].start <= fnCall.overlap
        /\ (fnCall = DefaultCall(-1) /\ fnResult.pc = "returned") =>
              [i \in 1..Len(fnResult.chunks) |->
                  <<fnResult.chunks[i].start, fnResult.chunks[i].end>>]
              = << <<0, 1000>>, <<800, 1800>>, <<1600, 2500>> >>

\* chunk_text has returned the chunks of the 2500 characters, consecutive
\* ones sharing characters.
C15_LongTextChunked ==
    /\ fnCall = DefaultCall(-1)
    /\ fnResult.pc = "returned"
    /\ Len(fnResult.chunks) = 3
    /\ fnResult.chunks[2].start < fnResult.chunks[1].end

-----------------------------------------------------------------------------
(* redaction.py called on its own: detect_pii and redact_text *)

\* detect_pii(text), the tiers finding the candidates found in it.
DetectCall(text, found) ==
    /\ fnCall = NoFn
    /\ fnCall' = [fn |-> "detect_pii", text |-> text, found |-> found]
    /\ fnResult' = DetectPii(found)
    /\ UNCHANGED notFn

\* The modes redact_text is called with: the three it knows and another.
Modes == {"mask", "hash", "remove", "blur"}

\* redact_text(text, pii_spans, mode) of a TextRedactor with the default salt.
RedactCall(text, spans, mode) ==
    /\ fnCall = NoFn
    /\ fnCall' = [fn |-> "redact_text", text |-> text, spans |-> spans, mode |-> mode]
    /\ fnResult' = RedactText(text, spans, mode, "default")
    /\ UNCHANGED notFn

NextRedaction ==
    \/ \E text \in SampleTexts : \E found \in FoundChoices(text) : DetectCall(text, found)
    \/ \E text \in SampleTexts : \E spans \in FoundChoices(text) : \E mode \in Modes :
          RedactCall(text, spans, mode)
    \/ FnDone

SpecRedaction == InitFn /\ [][NextRedaction]_vars

\* The character ranges of two spans have a position in common.
Intersect(a, b) ==
    \E pos \in a.start..(a.end - 1) : b.start <= pos /\ pos < b.end

InSeq(x, seq) == \E i \in 1..Len(seq) : seq[i] = x

\* C16: for every list of candidates of the two tiers, the spans detect_pii
\* returns are pairwise without a common position and are in ascending
\* order of start.
C16_DisjointAndSorted ==
    fnCall.fn = "detect_pii" =>
        \A i \in 1..Len(fnResult) : \A j \in (i + 1)..Len(fnResult) :
            /\ ~Intersect(fnResult[i], fnResult[j])
            /\ fnResult[i].start <= fnResult[j].start

\* detect_pii was given two candidates, the later-starting one first, and
\* returned both, the earlier-starting one first.
C16_TwoSpansReordered ==
    /\ fnCall.fn = "detect_pii"
    /\ Len(fnCall.found) = 2
    /\ fnCall.found[1].start > fnCall.found[2].start
    /\ Len(fnResult) = 2
    /\ fnResult[1] = fnCall.found[2]

\* C17 as stated: of two candidates that intersect, the one with the higher
\* confidence is not dropped while the other is kept; with equal confidence,
\* the one that starts earlier is not dropped while the other is kept.
C17_HigherConfidenceKept ==
    fnCall.fn = "detect_pii" =>
        \A i \in 1..Len(fnCall.found) : \A j \in 1..Len(fnCall.found) :
            LET a == fnCall.found[i]
                b == fnCall.found[j]
            IN  (/\ Intersect(a, b)
                 /\ \/ a.confidence > b.confidence
                    \/ a.confidence = b.confidence /\ a.start < b.start)
                => ~(InSeq(b, fnResult) /\ ~InSeq(a, fnResult))

\* a comes before b in the order overlap resolution takes the candidates:
\* by start, then by falling confidence, then as found.
TakenBefore(a, b, found) ==
    \/ a.start < b.start
    \/ a.start = b.start /\ a.confidence > b.confidence
    \/ /\ a.start = b.start
       /\ a.confidence = b.confidence
       /\ \E i \in 1..Len(found) : \E j \in (i + 1)..Len(found) :
             found[i] = a /\ found[j] = b

\* C18: redact_text with a mode other than 'mask', 'hash' and 'remove'
\* fails, whatever the text and the span list, the empty one included, and
\* returns no text.
C18_UnknownModeFails ==
    (fnCall.fn = "redact_text" /\ fnCall.mode \notin {"mask", "hash", "remove"}) =>
        (~fnResult.ok /\ fnResult.text = <<>> /\ fnResult.applied = <<>>)

\* The text with the range of each span replaced by the span's replacement
\* and every other character kept, read from the left.
RECURSIVE ReplacedFrom(_, _, _, _)
ReplacedFrom(text, spans, mode, pos) ==
    IF pos >= Len(text) THEN <<>>
    ELSE IF \E k \in 1..Len(spans) : spans[k].start = pos
         THEN LET k == CHOOSE j \in 1..Len(spans) : spans[j].start = pos
              IN  Replacement(spans[k], mode, "default")
                  \o ReplacedFrom(text, spans, mode, spans[k].end)
    ELSE <<text[pos + 1]>> \o ReplacedFrom(text, spans, mode, pos + 1)

\* C19: for spans that lie in the text and pairwise do not intersect, in
\* any order, redact_text returns the text with each span's range replaced
\* by its mask token, its hash token, or nothing, every other character
\* kept in place, and one record per span; with no spans it returns the text
\* as it is and no records.
C19_RangesReplaced ==
    (/\ fnCall.fn = "redact_text"
     /\ fnCall.mode \in {"mask", "hash", "remove"}
     /\ \A i \in 1..Len(fnCall.spans) :
           /\ 0 <= fnCall.spans[i].start
           /\ fnCall.spans[i].start < fnCall.spans[i].end
           /\ fnCall.spans[i].end <= Len(fnCall.text)
           /\ \A j \in (i + 1)..Len(fnCall.spans) :
                 ~Intersect(fnCall.spans[i], fnCall.spans[j]))
    => /\ fnResult.ok
       /\ fnResult.text = ReplacedFrom(fnCall.text, fnCall.spans, fnCall.mode, 0)
       /\ Len(fnResult.applied) = Len(fnCall.spans)
       /\ fnCall.spans = <<>> => (fnResult.text = fnCall.text /\ fnResult.applied = <<>>)

\* redact_text in hash mode replaced two ranges that were given in
\* ascending order, and characters outside them are left in the text.
C19_TwoRangesHashed ==
    /\ fnCall.fn = "redact_text"
    /\ fnCall.mode = "hash"
    /\ Len(fnCall.spans) = 2
    /\ fnCall.spans[1].end <= fnCall.spans[2].start
    /\ fnCall.spans[2].end < Len(fnCall.text)
    /\ fnResult.ok
    /\ fnResult.text[Len(fnResult.text)] = fnCall.text[Len(fnCall.text)]

-----------------------------------------------------------------------------
(* search after add_vectors calls that succeeded one after another *)

\* No call of the vector store is under way: each one made has returned
\* or raised and its local variables are gone.
VSQuiet == \A p \in VProcs : vpc[p] = "idle"

\* The calls of SpecVS made one after another: each begins when no other is
\* under way, add_vectors, create_index and delete_index called by one
\* process; the steps of a call are those of SpecVS.
NextSeq ==
    \/ \E batch \in SeqBatches :
          VSQuiet /\ vCalls["a1"] < MaxSeqCalls /\ AddCall("a1", batch)
    \/ VSQuiet /\ vCalls["a1"] < MaxSeqCalls /\ CreateCall("a1")
    \/ VSQuiet /\ vCalls["a1"] < MaxSeqCalls /\ DeleteCall("a1")
    \/ \E io \in WriteOutcomes : AddCreateIndex("a1", io)
    \/ \E io \in WriteOutcomes : AddCreateMetadata("a1", io)
    \/ \E ioOk \in BOOLEAN : DeleteIndexFile("a1", ioOk)
    \/ \E ioOk \in BOOLEAN : DeleteMetaFile("a1", ioOk)
    \/ AddReloadIndex("a1")
    \/ AddLoadMetadata("a1")
    \/ \E commitOk \in BOOLEAN : AddRow("a1", commitOk)
    \/ \E io \in TmpOutcomes : AddTmpIndex("a1", io)
    \/ \E io \in TmpOutcomes : AddTmpMetadata("a1", io)
    \/ \E io \in MoveOutcomes, stuck \in UnlinkOutcomes : AddMoveIndex("a1", io, stuck)
    \/ \E io \in CopyOutcomes, stuck \in UnlinkOutcomes : AddCopyIndex("a1", io, stuck)
    \/ \E io \in MoveOutcomes, stuck \in UnlinkOutcomes : AddMoveMetadata("a1", io, stuck)
    \/ \E io \in CopyOutcomes, stuck \in UnlinkOutcomes : AddCopyMetadata("a1", io, stuck)
    \/ \E p \in Searchers, q \in Queries, top_k \in TopKs :
          VSQuiet /\ SearchCall(p, q, top_k)
    \/ \E p \in Searchers : SearchMetadata(p)
    \/ \E p \in VProcs : VSReturn(p)

SpecSeq == InitVS /\ [][NextSeq]_vars

\* What successful calls leave of a tenant: no files (no call yet), or an
\* index and a map whose keys are the positions of the index.
PositionsMapped(files) ==
    \/ files[1].st = "absent" /\ files[2].st = "absent"
    \/ /\ files[1].st = "ok" /\ files[2].st = "ok"
       /\ DOMAIN files[2].map = 0..(Len(files[1].vecs) - 1)

\* The tenant's files were readable at the start, the search of s began and
\* ended with the files as they are now, no add_vectors call is under way,
\* the calls were made by one caller, one after another, and the files hold
\* what the start or a call that returned has saved (or there are none):
\* the index holds the vectors of the start and of the calls that returned
\* and no others, so no call that failed has left vectors in it; add_vectors
\* and search are the only calls that were made.
SearchedAfterAdds(s) ==
    /\ StartReadable
    /\ ~vReset
    /\ vpc[s] = "done"
    /\ vPre[s] = <<idxFile, metaFile>>
    /\ AddersQuiet
    /\ \E p \in Adders : OnlyAdder(p)
    /\ \/ idxFile.st = "absent" /\ metaFile.st = "absent"
       \/ /\ idxFile.st = "ok" /\ metaFile.st = "ok"
          /\ <<idxFile.vecs, metaFile.map>> \in committed
          /\ Len(idxFile.vecs) = Len(vBase[1].vecs) + vAdded

\* The vector ids the start and the add_vectors calls that returned have saved.
SavedIds == UNION {{c[2][pos] : pos \in DOMAIN c[2]} : c \in committed}

\* C20: a search with top_k >= 1 made after add_vectors calls that succeeded
\* one after another and stored n vectors returns exactly min(top_k, n)
\* results, in ascending order of distance, each naming a vector id that an
\* add_vectors call saved; with no index or an empty one it returns [].
C20_SearchReturnsTopK ==
    \A s \in Searchers :
        SearchedAfterAdds(s) =>
            LET n == Len(idxFile.vecs)
                k == vloc[s].top_k
                result == vloc[s].result
            IN  /\ Len(result) = IF k < n THEN k ELSE n
                /\ \A i \in 1..Len(result) :
                      /\ result[i].vector_id \in SavedIds
                      /\ \A j \in (i + 1)..Len(result) : result[i].score <= result[j].score
                /\ (idxFile.st = "absent" \/ n = 0) => result = <<>>

-----------------------------------------------------------------------------
(* add_vectors with lists of different lengths *)

\* p begins an add_vectors call in this step, with a list of vectors and a
\* list of records of different lengths.
MismatchedCall(p) ==
    /\ vpc[p] = "idle"
    /\ vpc'[p] # "idle"
    /\ Len(vloc'[p].batch.vectors) # Len(vloc'[p].batch.metadata)

\* C21: an add_vectors call whose lists of vectors and of records differ in
\* length (each of any length >= 0) fails with an error and changes neither
\* the index file, the metadata file nor the rows of the relational store.
C21_MismatchFailsUnchanged ==
    [][\A p \in Adders :
          MismatchedCall(p) =>
              /\ vpc'[p] = "failed"
              /\ idxFile' = idxFile
              /\ metaFile' = metaFile
              /\ db' = db]_vars

-----------------------------------------------------------------------------
(* docs.py: upload_document *)

\* An upload request, by what its checks and collaborators answer: whether
\* validate_tenant_id accepts the tenant id, whether verify_token accepts the
\* token, whether the token's tenant is the requested one, what
\* check_permission(.., "document:upload") does, whether validate_file_size
\* and the content type pass, and whether save_file_raw and ingest_document
\* return or raise.
UploadRequests ==
    [tenantValid : BOOLEAN, token : {"ok", "invalid"}, sameTenant : BOOLEAN,
     permission : {"granted", "denied", "raises"}, sizeOk : BOOLEAN,
     typeOk : BOOLEAN, save : {"ok", "raises"}, ingest : {"ok", "raises"}]

\* The answer to an upload: the HTTP status, and whether the raw file was
\* stored and the document ingested.
UploadReply(status, stored, ingested) ==
    [status |-> status, stored |-> stored, ingested |-> ingested]

\* Lines 43-60: what the statements inside the inner try raise: the
\* HTTPException of verify_token (401), the HTTPException(403) of the tenant
\* comparison or of the permission check, another exception of
\* check_permission (500 stands for it), or nothing (0).
RaisedInAuth(req) ==
    IF req.token = "invalid" THEN 401
    ELSE IF ~req.sameTenant THEN 403
    ELSE IF req.permission = "raises" THEN 500
    ELSE IF req.permission = "denied" THEN 403
    ELSE 0

\* Lines 62-67: `except Exception` takes whatever the inner try raised,
\* HTTPException included, and raises HTTPException(401) in its place.
AuthStatus(req) == IF RaisedInAuth(req) # 0 THEN 401 ELSE 0

\* upload_document, lines 33-70: the answer of the checks made before the
\* file is read; status 0: none yet, the handler waits at `await file.read()`.
UploadChecked(req) ==
    IF ~req.tenantValid THEN UploadReply(400, FALSE, FALSE)
    ELSE IF AuthStatus(req) # 0 THEN UploadReply(AuthStatus(req), FALSE, FALSE)
    ELSE UploadReply(0, FALSE, FALSE)

\* upload_document, lines 72-120, once the file is read. When save_file_raw
\* and ingest_document have returned, logger.info with extra={'filename': ..}
\* (95-101) raises KeyError, or with INFO off UploadResponse(document_id=,
\* tenant_id=, status=) (103-107) raises, the class requiring filename and
\* file_size; `except Exception` (111) then calls logger.error with
\* extra={'filename': ..} (112-116), whose KeyError leaves the handler: the
\* answer is 500, the file stored and ingested. The same KeyError ends the
\* calls in which save_file_raw or ingest_document raised.
UploadDocument(req) ==
    IF ~req.sizeOk THEN UploadReply(413, FALSE, FALSE)
    ELSE IF ~req.typeOk THEN UploadReply(400, FALSE, FALSE)
    ELSE IF req.save = "raises" THEN UploadReply(500, FALSE, FALSE)
    ELSE IF req.ingest = "raises" THEN UploadReply(500, TRUE, FALSE)
    ELSE UploadReply(500, TRUE, TRUE)

\* POST /v1/docs/upload: the handler up to `await file.read()` (line 70),
\* where it gives control back; the checks have the answers of that moment.
UploadCall(req) ==
    /\ fnCall = NoFn
    /\ fnCall' = [fn |-> "upload_document", req |-> req]
    /\ fnResult' = UploadChecked(req)
    /\ UNCHANGED notFn

\* The file is read and the handler goes on, without making the checks again.
UploadRead ==
    /\ fnCall # NoFn
    /\ fnCall.fn = "upload_document"
    /\ fnResult.status = 0
    /\ fnResult' = UploadDocument(fnCall.req)
    /\ UNCHANGED <<fnCall, notFn>>

\* The answer is sent; the next request can come.
UploadDone ==
    /\ fnCall # NoFn
    /\ fnResult.status # 0
    /\ FnDone

NextUpload ==
    \/ \E req \in UploadRequests : UploadCall(req)
    \/ UploadRead
    \/ UploadDone

SpecUpload == InitFn /\ [][NextUpload]_vars

\* C22: an upload by an authenticated user who lacks document:upload, or
\* whose token's tenant is not the requested tenant, is answered with HTTP
\* 403 and no file is stored or ingested.
C22_ForbiddenUpload ==
    ( /\ fnCall.fn = "upload_document"
      /\ fnCall.req.tenantValid
      /\ fnCall.req.token = "ok"
      /\ (~fnCall.req.sameTenant \/ fnCall.req.permission = "denied") ) =>
          /\ fnResult.status = 403
          /\ ~fnResult.stored
          /\ ~fnResult.ingested

-----------------------------------------------------------------------------
(* overlap resolution as the greedy pass from the left *)

\* C23: overlap resolution is the greedy pass from the left: the candidates
\* are visited by start ascending, then confidence descending, and one is
\* kept exactly when it overlaps no span kept before it; the kept spans come
\* out in the order visited, and every dropped candidate overlaps a kept
\* span.
C23_GreedyLeftToRight ==
    fnCall.fn = "detect_pii" =>
        LET found == fnCall.found
        IN  /\ \A k \in 1..Len(fnResult) : InSeq(fnResult[k], found)
            /\ \A i \in 1..Len(found) :
                  InSeq(found[i], fnResult) <=>
                     ~\E j \in 1..Len(found) :
                         /\ InSeq(found[j], fnResult)
                         /\ TakenBefore(found[j], found[i], found)
                         /\ Intersect(found[j], found[i])
            /\ \A i \in 1..Len(found) :
                  ~InSeq(found[i], fnResult) =>
                      \E k \in 1..Len(fnResult) : Intersect(found[i], fnResult[k])
            /\ \A k \in 1..(Len(fnResult) - 1) :
                  TakenBefore(fnResult[k], fnResult[k + 1], found)

\* detect_pii was given three candidates a, b and c, visited in that order:
\* b overlaps a, starts after it and has the higher confidence, c overlaps b
\* and not a. a was kept, b dropped, and c, which overlaps only the dropped
\* b, was kept.
C23_DroppedDoesNotSuppress ==
    /\ fnCall.fn = "detect_pii"
    /\ Len(fnCall.found) = 3
    /\ Len(fnResult) = 2
    /\ \E i, j, k \in 1..3 :
          LET a == fnCall.found[i]
              b == fnCall.found[j]
              c == fnCall.found[k]
          IN  /\ a.start < b.start /\ b.start < c.start
              /\ b.confidence > a.confidence
              /\ Intersect(a, b) /\ Intersect(b, c) /\ ~Intersect(a, c)
              /\ fnResult = <<a, c>>

-----------------------------------------------------------------------------
(* where chunk_text cuts a window that does not reach the end of the text *)

\* The length of the sentence-ending delimiter that begins at index pos of
\* the text and ends at or before index limit: 1 for '.', '!' and '?', 2 for
\* a blank-line break, 0 when none begins there.
DelimiterAt(text, pos, limit) ==
    IF pos < limit /\ text[pos + 1] \in {".", "!", "?"} THEN 1
    ELSE IF pos + 1 < limit /\ text[pos + 1] = "\n" /\ text[pos + 2] = "\n" THEN 2
    ELSE 0

\* The indexes in the last LookBack characters of the window [start, raw) at
\* which a delimiter begins, beyond the midpoint of the window.
DelimitersOfWindow(text, start, raw) ==
    {pos \in Max(start, raw - LookBack)..(raw - 1) :
        /\ DelimiterAt(text, pos, raw) > 0
        /\ pos > start + (raw - start) \div 2}

\* C24: a window that does not reach the end of the text is cut immediately
\* after the right-most sentence-ending delimiter that lies in its last 100
\* characters and after its midpoint, and at start + chunk_size only when
\* there is no such delimiter (read off the chunks emitted).
C24_CutAfterLastDelimiter ==
    fnCall.fn = "chunk_text" =>
        \A k \in 1..Len(fnResult.chunks) :
            LET c == fnResult.chunks[k]
                raw == c.start + fnCall.chunk_size
                at == DelimitersOfWindow(fnCall.text, c.start, raw)
                last == CHOOSE pos \in at : \A q \in at : q <= pos
            IN  raw < Len(fnCall.text) =>
                    c.end = IF at = {} THEN raw
                            ELSE last + DelimiterAt(fnCall.text, last, raw)

-----------------------------------------------------------------------------
(* the audit_id of a stored event *)

\* The record stored in a line, without its signature, signature_algorithm
\* and audit_id.
StoredContent(line) ==
    DictDel(DictDel(DictDel(JsonLoads(line[2])[2], K("signature")),
                    K("signature_algorithm")),
            K("audit_id"))

\* C25: for every event write_audit_event has appended, with or without
\* response_data, the audit_id is the SHA-256 hash of the canonical
\* serialization of the stored record with exactly signature,
\* signature_algorithm and audit_id removed.
C25_AuditIdIsContentHash ==
    \A i \in 1..Len(written) :
        DictGet(JsonLoads(written[i][2])[2], K("audit_id"), None)
            = AuditIdOf(StoredContent(written[i]))

-----------------------------------------------------------------------------
(* read_audit_event and verify_audit_integrity on a log file as it is found *)

\* The lines such a file holds: a blank line, a line that is no JSON, a line
\* that is JSON but no object (the number 1), an event as write_audit_event
\* appends it, the same event as it stands before it is signed, and an event
\* with a response whose signature was changed after it was written.
GivenLines ==
    { <<"blank">>,
      <<"malformed">>,
      <<"json", JsonDumps(PyInt(1), FALSE)>>,
      LineOf(SignedEvent(0, CallWith(None, None))),
      LineOf(WithAuditId(BaseEvent(0, CallWith(None, None)))),
      MutatedLine(LineOf(SignedEvent(0, CallWith(PlainRequest, SomeResponse))),
                  "signature") }

RECURSIVE LogsUpTo(_)
LogsUpTo(n) ==
    IF n = 0 THEN {<<>>}
    ELSE LogsUpTo(n - 1) \cup
         {Append(f, line) : f \in {g \in LogsUpTo(n - 1) : Len(g) = n - 1},
                            line \in GivenLines}

\* The audit ids asked for: those of the two events, and one no line has.
GivenIds ==
    { AuditIdOf(BaseEvent(0, CallWith(None, None))),
      AuditIdOf(BaseEvent(0, CallWith(PlainRequest, SomeResponse))),
      UnknownId }

InitGiven ==
    /\ log \in LogsUpTo(MaxLines)
    /\ clock = 0
    /\ opRes = NoResult
    /\ returned = {}
    /\ written = <<>>
    /\ tampered = {}
    /\ InitWriters
    /\ VSIdle /\ QueryIdle /\ FnIdle

NextGiven ==
    \/ \E audit_id \in GivenIds : LedgerRead(audit_id)
    \/ \E limit \in 0..MaxLines : LedgerVerify(limit)

SpecGiven == InitGiven /\ [][NextGiven]_vars

\* The lines of the log that are JSON objects with the audit_id asked for.
LinesWithId(audit_id) ==
    {i \in 1..Len(log) :
        /\ IsEventObject(log[i])
        /\ DictGet(JsonLoads(log[i][2])[2], K("audit_id"), None) = audit_id}

\* C26: read_audit_event skips every line that is not a parseable JSON event
\* object and goes on: when a well-formed event with the audit_id asked for
\* is anywhere in the log, the first such line is returned, whatever lines
\* come before it, and not-found only when no line has the audit_id.
C26_ReadSkipsMalformed ==
    opRes.op = "read" =>
        LET at == LinesWithId(opRes.audit_id)
            first == CHOOSE i \in at : \A j \in at : i <= j
        IN  IF at = {} THEN ~opRes.read.found
            ELSE /\ opRes.read.found
                 /\ DictGet(opRes.read.event, K("audit_id"), None) = opRes.audit_id
                 /\ DictGet(opRes.read.event, K("signature"), PyStr(""))
                      = DictGet(JsonLoads(log[first][2])[2], K("signature"), PyStr(""))


\* The lines among the first n that are not blank.
NonBlankLines(n) == {i \in 1..n : ~IsBlank(log[i])}

\* The lines among the first n that are JSON objects without a signature.
UnsignedLines(n) ==
    {i \in 1..n :
        /\ IsEventObject(log[i])
        /\ ~Truthy(DictGet(JsonLoads(log[i][2])[2], K("signature"), None))}

\* C27: verify_audit_integrity returns its report, having put every
\* non-blank line it examined into exactly one of valid, invalid, malformed
\* and missing-signature: total_events is the number of those lines and the
\* sum of the four counters; the lines that are no JSON are the malformed
\* ones, the objects without a signature the missing ones (none of them is
\* counted invalid), the signed objects the valid and invalid ones; with a
\* limit only the first limit lines are examined.
C27_EveryLineClassified ==
    opRes.op = "verify" =>
        LET n == Examined(opRes.limit)
            stats == opRes.stats
        IN  /\ ~stats.raised
            /\ stats.total_events = Cardinality(NonBlankLines(n))
            /\ stats.total_events = stats.valid_signatures + stats.invalid_signatures
                                      + stats.malformed_events + stats.missing_signatures
            /\ stats.missing_signatures = Cardinality(UnsignedLines(n))
            /\ stats.malformed_events = Cardinality({i \in NonBlankLines(n) : ~IsJson(log[i])})
            /\ stats.valid_signatures + stats.invalid_signatures
                 = Cardinality({i \in NonBlankLines(n) : IsJson(log[i])} \ UnsignedLines(n))

-----------------------------------------------------------------------------
(* the positions add_vectors assigns *)

\* The step in which the add_vectors call of p returns its vector ids.
AddReturns(p) == vpc[p] \in {"move_metadata", "copy_metadata"} /\ vpc'[p] = "done"

\* The step in which a create_index call made by itself returns.
CreateReturns(p) == vpc[p] = "create_metadata" /\ vpc'[p] = "done"

\* C28: an add_vectors call that returns, made when no other call runs on a
\* tenant whose files are as successful calls leave them (create_index
\* included, for a tenant with no index), appends its vectors, gives record
\* i (from 0) the position previous_total + i in the map and in its row,
\* leaves the map with exactly the keys 0..ntotal-1, and leaves every
\* position mapped before the call with the id it had; a create_index call
\* that returns leaves an index of no vectors and a map of no keys.
C28_PositionsAppended ==
    [][\A p \in Adders :
        /\ CreateReturns(p) =>
              /\ idxFile' = IndexFileOf(<<>>)
              /\ metaFile' = MetaFileOf(EmptyMap)
              /\ PositionsMapped(<<idxFile', metaFile'>>)
        /\ (AddReturns(p) /\ PositionsMapped(vPre[p])) =>
              LET previous_total == Len(vPre[p][1].vecs)
                  before == LoadMetadata(vPre[p][2])
                  batch == vloc[p].batch
              IN  /\ idxFile'.vecs = vPre[p][1].vecs \o batch.vectors
                  /\ metaFile'.st = "ok"
                  /\ DOMAIN metaFile'.map = 0..(Len(idxFile'.vecs) - 1)
                  /\ \A i \in 1..Len(batch.metadata) :
                        /\ metaFile'.map[previous_total + i - 1]
                             = batch.metadata[i].chunk_id
                        /\ [vector_id |-> batch.metadata[i].chunk_id,
                            chunk_id |-> batch.metadata[i].chunk_id,
                            faiss_index |-> previous_total + i - 1] \in db'
                  /\ \A pos \in DOMAIN before : metaFile'.map[pos] = before[pos]
                  /\ PositionsMapped(<<idxFile', metaFile'>>)]_vars

\* Two add_vectors calls have returned one after the other on a tenant
\* that had no vectors: the first stored one record at position 0, the
\* second, of two records, began on the files the first left and has
\* returned with positions 0, 1 and 2 mapped, position 0 with the id the
\* first call gave it.
C28_TwoAppendedAfterOne ==
    /\ vpc["a1"] = "done"
    /\ vCalls["a1"] = 2
    /\ ~vReset
    /\ vBase[1].vecs = <<>>
    /\ vAdded = 3
    /\ vPre["a1"] = <<IndexFileOf(<<"v1">>), MetaFileOf(0 :> "c1")>>
    /\ vPre["a1"][2].map \in {c[2] : c \in committed}
    /\ Len(vloc["a1"].result) = 2
    /\ DOMAIN metaFile.map = 0..2
    /\ metaFile.map[0] = "c1"
    /\ metaFile.map[1] = vloc["a1"].batch.metadata[1].chunk_id

-----------------------------------------------------------------------------
(* the temporary files of _save_index *)

\* C29: when an add_vectors call has ended, by returning or by raising at
\* any step (writing either temporary file and either move included), none
\* of the temporary files it created exists.
C29_NoTemporaryLeft ==
    \A p \in Adders :
        vpc[p] \in {"idle", "done", "failed"} =>
            tmpDir \cap {Tmp(p, ".faiss"), Tmp(p, ".pkl")} = {}

-----------------------------------------------------------------------------
(* the windows of chunk_text leave no gap *)

\* The characters of the text, counted from 0, that are not whitespace.
NonWhitespaceAt(text) == {i \in 0..(Len(text) - 1) : text[i + 1] \notin Whitespace}

\* C30: with chunk_size >= 1 and overlap >= 0, every iteration of the loop
\* that goes on starts the next window at or before the end of the window it
\* scanned, and when chunk_text returns every character of the text that is
\* not whitespace lies in the [start, end) of a chunk it returns.
C30_WindowsLeaveNoGap ==
    [][(/\ fnCall.fn = "chunk_text"
        /\ fnCall.chunk_size >= 1
        /\ fnCall.overlap >= 0
        /\ fnResult.pc = "loop"
        /\ fnResult' # fnResult) =>
           /\ fnResult'.pc = "loop" =>
                 fnResult'.start <= WindowEnd(fnCall.text, fnCall.chunk_size,
                                              fnResult.start)
           /\ fnResult'.pc = "returned" =>
                 \A i \in NonWhitespaceAt(fnCall.text) :
                    \E k \in 1..Len(fnResult'.chunks) :
                       /\ fnResult'.chunks[k].start <= i
                       /\ i < fnResult'.chunks[k].end]_vars

\* chunk_text has returned two chunks or more of a text in which a window
\* held only whitespace: a chunk starts after the end of the chunk before
\* it, and what lies between is whitespace.
C30_WhitespaceWindowSkipped ==
    /\ fnCall.fn = "chunk_text"
    /\ fnCall.chunk_size >= 1
    /\ fnResult.pc = "returned"
    /\ Len(fnResult.chunks) >= 2
    /\ \E k \in 1..(Len(fnResult.chunks) - 1) :
          /\ fnResult.chunks[k].end < fnResult.chunks[k + 1].start
          /\ AllWhitespace(fnCall.text, fnResult.chunks[k].end,
                           fnResult.chunks[k + 1].start)

====
